---- MODULE Spec2Model ----
(***************************************************************************)
(* gdls: a Unix-ls-like view of a remote drive.  The model covers the      *)
(* cache (src/gdls/cache.py), the listing and the recursive folder-size    *)
(* calculation (src/gdls/explorer.py) and the path resolver                *)
(* (src/gdls/paths.py).                                                    *)
(* Every handler is an action; a recursive call is a frame on `stack`.     *)
(***************************************************************************)
EXTENDS Integers, Sequences, FiniteSets, TLC

VARIABLES
    drive,      \* remote store: id -> [name, mimeType, size, parents, trashed,
                \*                      ownedByMe, modifiedTime]
    rev,        \* remote side: listing order (unspecified by the API)
    srvPage,    \* remote side: how many entries the server puts on one page
    cache,      \* DriveCache._cache_data
    disk,       \* the backing file .gdrive_cache.json
    now,        \* last reading of datetime.now().timestamp()
    pc,         \* "off" | "idle" | "size" | "resolve" | "list"
    stack,      \* frames of _recursive_folder_size, innermost last
    rs,         \* locals of PathResolver.resolve / _resolve_path_components
    ret,        \* outcome of the last finished operation
    log,        \* remote calls issued by the current / last operation
    budget,     \* operations the client may still start
    args,       \* folder ids the client asks the size of
    asked,      \* paths the client asks to resolve
    entered,    \* history: frames of _recursive_folder_size begun per folder
    counted,    \* history: how often each entry's size was added
    anyFail,    \* history: a page fetch of the current operation failed
    found,      \* history: the size entry stored when the operation began
    ls,         \* locals of DriveExplorer.list_files
    peer        \* DriveCache of a second process on the same backing file

vars == <<drive, rev, srvPage, cache, disk, now, pc, stack, rs, ret, log,
          budget, args, asked, entered, counted, anyFail, found, ls, peer>>

-----------------------------------------------------------------------------
(* Bounds of the model *)

MaxLinks == 4       \* parent/child links of the remote store
MaxPage == 2        \* entries the server returns per page, at most
MaxOps == 2         \* operations per behaviour in the cache specifications
MaxPathLen == 4     \* characters of a path given to resolve

(* Program constants *)

CACHE_TTL_SECONDS == 3600
API_PAGE_SIZE == 1000

FOLDER_MIME == "application/vnd.google-apps.folder"
DOC_MIME == "application/vnd.google-apps.document"
PLAIN_MIME == "text/plain"

-----------------------------------------------------------------------------
(* Values *)

None == [some |-> FALSE, v |-> 0]
Some(x) == [some |-> TRUE, v |-> x]

Min(a, b) == IF a <= b THEN a ELSE b

Folders == {"A", "B", "D"}
Files == {"x", "g", "t"}
Ids == Folders \cup Files
IdOrder == <<"A", "B", "D", "x", "g", "t">>

Reverse(s) == [i \in 1..Len(s) |-> s[Len(s) + 1 - i]]

RECURSIVE SumFn(_, _)
SumFn(f, S) ==
    IF S = {} THEN 0
    ELSE LET e == CHOOSE e \in S : TRUE IN f[e] + SumFn(f, S \ {e})

Put(f, k, v) == [x \in DOMAIN f \cup {k} |-> IF x = k THEN v ELSE f[x]]

EmptyMap == [x \in {} |-> 0]

(* Clock readings: a start, and the last second within and the first second *)
(* beyond one TTL after it                                                  *)
Clock == {0, CACHE_TTL_SECONDS, CACHE_TTL_SECONDS + 1}
ClockMax == CACHE_TTL_SECONDS + 1

-----------------------------------------------------------------------------
(* The remote store, as the Drive API shows it *)

TrashFilter(e, includeTrashed) == includeTrashed \/ ~e.trashed

(* files().list(q="'<parent>' in parents [and trashed=false]"): every entry *)
(* that names parent among its parents, in the server's order.              *)
ListChildren(parent, includeTrashed) ==
    SelectSeq(IF rev THEN Reverse(IdOrder) ELSE IdOrder,
              LAMBDA i : parent \in drive[i].parents
                         /\ TrashFilter(drive[i], includeTrashed))

PageLen == Min(API_PAGE_SIZE, srvPage)

(* One page of a listing; page_token 0 is None (the first request). *)
PageItems(listing, token) ==
    SubSeq(listing, token * PageLen + 1, Min(Len(listing), (token + 1) * PageLen))

NextPageToken(listing, token) ==
    IF (token + 1) * PageLen < Len(listing) THEN token + 1 ELSE 0

-----------------------------------------------------------------------------
(* src/gdls/cache.py *)

EmptyCache == [paths |-> EmptyMap, folder_sizes |-> EmptyMap]

cache_key(folder_id) == <<"size_", folder_id>>

get_path_expiring(c, path) ==
    IF path \in DOMAIN c.paths /\ now - c.paths[path].timestamp <= CACHE_TTL_SECONDS
    THEN [some |-> TRUE, id |-> c.paths[path].id, name |-> c.paths[path].name,
          path |-> path]
    ELSE [some |-> FALSE, id |-> "", name |-> <<>>, path |-> path]

get_path(c, path) ==
    IF path \in DOMAIN c.paths
    THEN [some |-> TRUE, id |-> c.paths[path].id, name |-> c.paths[path].name,
          path |-> path]
    ELSE [some |-> FALSE, id |-> "", name |-> <<>>, path |-> path]

set_path(c, path, id, name, t) ==
    [c EXCEPT !.paths = Put(@, path, [id |-> id, name |-> name, timestamp |-> t])]

IsExpiredAtTTL(age) == age >= CACHE_TTL_SECONDS

IsExpiredNever(age) == FALSE

(* age > CACHE_TTL_SECONDS *)
IsExpired(age) == age > CACHE_TTL_SECONDS

(* a cache that never answers a size request *)
get_folder_size_miss(c, folder_id, t) == None

get_folder_size(c, folder_id, t) ==
    IF cache_key(folder_id) \notin DOMAIN c.folder_sizes THEN None
    ELSE LET cached == c.folder_sizes[cache_key(folder_id)] IN
         IF IsExpired(t - cached.timestamp) THEN None ELSE Some(cached.size)

(* a store of one size: the new entry replaces all the others *)
set_only_folder_size(c, folder_id, size, t) ==
    [c EXCEPT !.folder_sizes =
        Put(EmptyMap, cache_key(folder_id), [size |-> size, timestamp |-> t])]

set_folder_size(c, folder_id, size, t) ==
    [c EXCEPT !.folder_sizes =
        Put(@, cache_key(folder_id), [size |-> size, timestamp |-> t])]

ClearPathsOnly == [cache EXCEPT !.paths = EmptyMap]

(* self._cache_data = {'paths': {}, 'folder_sizes': {}} *)
clear == EmptyCache

(* json.dump of a dict of dicts: each object is written as its members, *)
(* key and value                                                        *)
json_dump(c) == [k \in DOMAIN c |-> {<<key, c[k][key]>> : key \in DOMAIN c[k]}]

(* json.load: each object read back as a dict from its members *)
json_load(o) ==
    [k \in DOMAIN o |->
        [key \in {m[1] : m \in o[k]} |-> (CHOOSE m \in o[k] : m[1] = key)[2]]]

LoadNothing(d) == EmptyCache

(* json.load gives a value that is no dict, or the bytes are no text: the *)
(* TypeError or UnicodeDecodeError is not among the exceptions caught     *)
load_raises(d) == d.state \in {"notdict", "undecodable"}

(* _load_cache: no file, an unreadable one (IOError) or invalid JSON give *)
(* the empty cache; keys missing from the loaded object are added         *)
load_cache(d) ==
    IF d.state = "ok"
    THEN LET data == json_load(d.data) IN
         [paths |-> IF "paths" \in DOMAIN data THEN data.paths ELSE EmptyMap,
          folder_sizes |-> IF "folder_sizes" \in DOMAIN data
                           THEN data.folder_sizes ELSE EmptyMap]
    ELSE EmptyCache

SaveRaisesNever(ok) == FALSE

(* except IOError as e: raise DriveCacheError(...) *)
SaveRaises(ok) == ~ok

(* _save_cache: json.dump of the whole cache; on IOError the file is left *)
(* as it was (open failed) or truncated (the write failed).               *)
save_cache(c, ok, truncated) ==
    IF ok THEN [state |-> "ok", data |-> json_dump(c)]
    ELSE IF truncated THEN [state |-> "corrupt", data |-> json_dump(EmptyCache)]
    ELSE disk

-----------------------------------------------------------------------------
(* src/gdls/explorer.py: calculate_folder_size / _recursive_folder_size *)

(* one call on a collaborator: the remote service or the cache *)
Call(call, id, name, token, ok, res) ==
    [call |-> call, id |-> id, name |-> name, token |-> token, ok |-> ok,
     res |-> res]

RemoteCalls == SelectSeq(log, LAMBDA e : e.call = "list")

NoRet == [op |-> "none", kind |-> "none", val |-> 0, id |-> "", name |-> <<>>,
          path |-> <<>>, seg |-> <<>>, err |-> "", items |-> <<>>]

(* a second process that has not yet constructed its DriveCache *)
NoPeer == [state |-> "off", cache_data |-> EmptyCache, budget |-> MaxOps]

NoList == [id |-> "", options |-> <<>>, all_items |-> <<>>, page_token |-> 0,
           phase |-> "none", items |-> <<>>, idx |-> 0]

InVisitedNever(folder_id, visited) == FALSE

InVisited(folder_id, visited) == folder_id \in visited

(* visited.add(folder_id), then the locals of the call *)
NewFrame(folder_id, visited) ==
    [id |-> folder_id, visited |-> visited \cup {folder_id}, total |-> 0,
     page_token |-> 0, next |-> 0, items |-> <<>>, phase |-> "fetch"]

VisitedShared(callerVisited, calleeVisited) == calleeVisited

(* visited.copy(): what the callee does to its set is not seen by the caller *)
VisitedAfterCall(callerVisited, calleeVisited) == callerVisited

HasSize(e) == e.size.some

IsFolder(e) == e.mimeType = FOLDER_MIME

Top == stack[Len(stack)]

SetTop(f) == [stack EXCEPT ![Len(stack)] = f]

(* history: the raw size entry of folder_id in the cache, read at time t *)
StoredSize(folder_id, t) ==
    IF cache_key(folder_id) \in DOMAIN cache.folder_sizes
    THEN [kind |-> "entry", id |-> folder_id, name |-> <<>>,
          size |-> cache.folder_sizes[cache_key(folder_id)].size,
          timestamp |-> cache.folder_sizes[cache_key(folder_id)].timestamp,
          at |-> t]
    ELSE [kind |-> "absent", id |-> folder_id, name |-> <<>>, size |-> 0,
          timestamp |-> 0, at |-> t]

NoFound == [kind |-> "none", id |-> "", name |-> <<>>, size |-> 0, timestamp |-> 0,
            at |-> 0]

(* calculate_folder_size(folder_id): the cache check and, on a miss, the *)
(* call _recursive_folder_size(folder_id, set())                         *)
CalculateFolderSize(folder_id) ==
    /\ pc = "idle"
    /\ budget > 0
    /\ budget' = budget - 1
    /\ \E t \in Clock :
        /\ t >= now
        /\ now' = t
        /\ LET cached_size == get_folder_size(cache, folder_id, t) IN
           IF cached_size.some
           THEN /\ ret' = [NoRet EXCEPT !.op = "size", !.kind = "value",
                                        !.val = cached_size.v, !.id = folder_id]
                /\ UNCHANGED <<pc, stack>>
           ELSE /\ pc' = "size"
                /\ stack' = <<NewFrame(folder_id, {})>>
                /\ ret' = [NoRet EXCEPT !.op = "size", !.id = folder_id]
    /\ log' = <<Call("get_folder_size", folder_id, <<>>, 0, TRUE, "")>>
    /\ entered' = [f \in Ids |-> IF pc' = "size" /\ f = folder_id THEN 1 ELSE 0]
    /\ counted' = [f \in Ids |-> 0]
    /\ anyFail' = FALSE
    /\ found' = StoredSize(folder_id, now')
    /\ UNCHANGED peer
    /\ UNCHANGED <<drive, rev, srvPage, cache, disk, rs, args, asked, ls>>

(* service.files().list(...).execute() answers with a page *)
FetchPage ==
    /\ pc = "size"
    /\ Top.phase = "fetch"
    /\ LET listing == ListChildren(Top.id, FALSE) IN
       /\ stack' = SetTop([Top EXCEPT
                              !.items = PageItems(listing, Top.page_token),
                              !.next = NextPageToken(listing, Top.page_token),
                              !.phase = "items"])
       /\ log' = Append(log, Call("list", Top.id, <<>>, Top.page_token, TRUE, ""))
    /\ UNCHANGED peer
    /\ UNCHANGED <<drive, rev, srvPage, cache, disk, now, pc, rs, ret, budget,
                   args, asked, entered, counted, anyFail, found, ls>>

TotalDropped(total_size) == 0

(* break leaves total_size as it is: return total_size *)
TotalAfterBreak(total_size) == total_size

(* ... or raises HttpError: except HttpError: break *)
FetchFail ==
    /\ pc = "size"
    /\ Top.phase = "fetch"
    /\ stack' = SetTop([Top EXCEPT !.phase = "ret", !.total = TotalAfterBreak(@)])
    /\ log' = Append(log, Call("list", Top.id, <<>>, Top.page_token, FALSE, ""))
    /\ anyFail' = TRUE
    /\ UNCHANGED peer
    /\ UNCHANGED <<drive, rev, srvPage, cache, disk, now, pc, rs, ret, budget,
                   args, asked, entered, counted, found, ls>>

(* for item in items: if 'size' in item: total_size += int(item['size']) *)
AddSize ==
    /\ pc = "size"
    /\ Top.phase = "items"
    /\ Top.items # <<>>
    /\ LET item == Head(Top.items) IN
       /\ HasSize(drive[item])
       /\ stack' = SetTop([Top EXCEPT !.total = @ + drive[item].size.v,
                                      !.items = Tail(@)])
       /\ counted' = [counted EXCEPT ![item] = @ + 1]
    /\ UNCHANGED peer
    /\ UNCHANGED <<drive, rev, srvPage, cache, disk, now, pc, rs, ret, log,
                   budget, args, asked, entered, anyFail, found, ls>>

(* elif folder: total_size += self._recursive_folder_size(id, visited.copy()) *)
(* with the callee's first test failing: a frame is begun                     *)
Descend ==
    /\ pc = "size"
    /\ Top.phase = "items"
    /\ Top.items # <<>>
    /\ LET item == Head(Top.items) IN
       /\ ~HasSize(drive[item])
       /\ IsFolder(drive[item])
       /\ ~InVisited(item, Top.visited)
       /\ stack' = Append(SetTop([Top EXCEPT !.items = Tail(@)]),
                          NewFrame(item, Top.visited))
       /\ entered' = [entered EXCEPT ![item] = @ + 1]
    /\ UNCHANGED peer
    /\ UNCHANGED <<drive, rev, srvPage, cache, disk, now, pc, rs, ret, log,
                   budget, args, asked, counted, anyFail, found, ls>>

(* the same call when folder_id in visited: return 0 *)
SkipVisited ==
    /\ pc = "size"
    /\ Top.phase = "items"
    /\ Top.items # <<>>
    /\ LET item == Head(Top.items) IN
       /\ ~HasSize(drive[item])
       /\ IsFolder(drive[item])
       /\ InVisited(item, Top.visited)
       /\ stack' = SetTop([Top EXCEPT !.total = @ + 0, !.items = Tail(@)])
    /\ UNCHANGED <<drive, rev, srvPage, cache, disk, now, pc, rs, ret, log,
                   budget, args, asked, entered, counted, anyFail, found, ls, peer>>

(* an item with no size that is no folder adds nothing *)
SkipItem ==
    /\ pc = "size"
    /\ Top.phase = "items"
    /\ Top.items # <<>>
    /\ LET item == Head(Top.items) IN
       /\ ~HasSize(drive[item])
       /\ ~IsFolder(drive[item])
       /\ stack' = SetTop([Top EXCEPT !.items = Tail(@)])
    /\ UNCHANGED <<drive, rev, srvPage, cache, disk, now, pc, rs, ret, log,
                   budget, args, asked, entered, counted, anyFail, found, ls, peer>>

MorePagesNever(page_token) == FALSE

(* if not page_token: break *)
MorePages(page_token) == page_token # 0

(* page_token = results.get('nextPageToken'); if not page_token: break *)
EndPage ==
    /\ pc = "size"
    /\ Top.phase = "items"
    /\ Top.items = <<>>
    /\ stack' = SetTop([Top EXCEPT !.page_token = Top.next,
                                   !.phase = IF MorePages(Top.next) THEN "fetch" ELSE "ret"])
    /\ UNCHANGED <<drive, rev, srvPage, cache, disk, now, pc, rs, ret, log,
                   budget, args, asked, entered, counted, anyFail, found, ls, peer>>

(* return total_size, to the frame that called *)
ReturnToCaller ==
    /\ pc = "size"
    /\ Top.phase = "ret"
    /\ Len(stack) > 1
    /\ LET caller == stack[Len(stack) - 1] IN
       stack' = [SubSeq(stack, 1, Len(stack) - 1) EXCEPT ![Len(stack) - 1] =
                    [caller EXCEPT
                        !.total = @ + Top.total,
                        !.visited = VisitedAfterCall(@, Top.visited)]]
    /\ UNCHANGED <<drive, rev, srvPage, cache, disk, now, pc, rs, ret, log,
                   budget, args, asked, entered, counted, anyFail, found, ls, peer>>

(* item.calculated_size = value: the item under the loop gets its size *)
SetCalculated(l, value) ==
    [l EXCEPT !.items[l.idx].calculated_size = Some(value), !.idx = @ + 1]

(* ... or to calculate_folder_size: cache.set_folder_size(id, total); return, *)
(* to the client or to the loop of _calculate_folder_sizes; DriveCacheError   *)
(* is caught by neither                                                       *)
ReturnTotal ==
    /\ pc = "size"
    /\ Top.phase = "ret"
    /\ Len(stack) = 1
    /\ \E t \in Clock, ok \in BOOLEAN, truncated \in BOOLEAN :
        /\ t >= now
        /\ ok => ~truncated
        /\ now' = t
        /\ cache' = set_folder_size(cache, Top.id, Top.total, t)
        /\ disk' = save_cache(cache', ok, truncated)
        /\ ret' = IF SaveRaises(ok)
                  THEN [ret EXCEPT !.kind = "error", !.err = "DriveCacheError"]
                  ELSE IF ls.phase = "sizes" THEN ret
                  ELSE [ret EXCEPT !.kind = "value", !.val = Top.total]
        /\ log' = Append(log, Call("set_folder_size", Top.id, <<>>, 0, ok, ""))
        /\ pc' = IF ~SaveRaises(ok) /\ ls.phase = "sizes" THEN "list" ELSE "idle"
        /\ ls' = IF ls.phase # "sizes" THEN ls
                 ELSE IF ~SaveRaises(ok) THEN SetCalculated(ls, Top.total)
                 ELSE [ls EXCEPT !.phase = "raised"]
    /\ stack' = <<>>
    /\ UNCHANGED peer
    /\ UNCHANGED <<drive, rev, srvPage, rs, budget, args, asked, entered, counted,
                   anyFail, found>>

(* a lookup that evicts the entry it finds expired *)
GetFolderSizeEvicting(folder_id) ==
    /\ pc = "idle"
    /\ budget > 0
    /\ budget' = budget - 1
    /\ \E t \in Clock :
        /\ t >= now
        /\ now' = t
        /\ LET cached_size == get_folder_size(cache, folder_id, t) IN
           /\ ret' = [NoRet EXCEPT !.op = "get_folder_size", !.id = folder_id,
                                   !.kind = IF cached_size.some THEN "value" ELSE "none",
                                   !.val = cached_size.v]
           /\ cache' = IF cached_size.some THEN cache
                       ELSE [cache EXCEPT !.folder_sizes =
                                [k \in DOMAIN @ \ {cache_key(folder_id)} |-> @[k]]]
    /\ log' = <<Call("get_folder_size", folder_id, <<>>, 0, TRUE, "")>>
    /\ found' = StoredSize(folder_id, now')
    /\ entered' = [f \in Ids |-> 0]
    /\ counted' = [f \in Ids |-> 0]
    /\ anyFail' = FALSE
    /\ UNCHANGED peer
    /\ UNCHANGED <<drive, rev, srvPage, disk, pc, stack, rs, args, asked, ls>>

(* DriveCache.get_folder_size(folder_id), called on its own *)
GetFolderSize(folder_id) ==
    /\ pc = "idle"
    /\ budget > 0
    /\ budget' = budget - 1
    /\ \E t \in Clock :
        /\ t >= now
        /\ now' = t
        /\ LET cached_size == get_folder_size(cache, folder_id, t) IN
           ret' = [NoRet EXCEPT !.op = "get_folder_size", !.id = folder_id,
                                !.kind = IF cached_size.some THEN "value" ELSE "none",
                                !.val = cached_size.v]
    /\ log' = <<Call("get_folder_size", folder_id, <<>>, 0, TRUE, "")>>
    /\ found' = StoredSize(folder_id, now')
    /\ entered' = [f \in Ids |-> 0]
    /\ counted' = [f \in Ids |-> 0]
    /\ anyFail' = FALSE
    /\ UNCHANGED peer
    /\ UNCHANGED <<drive, rev, srvPage, cache, disk, pc, stack, rs, args, asked, ls>>

(* DriveCache.clear() *)
Clear ==
    /\ pc = "idle"
    /\ budget > 0
    /\ budget' = budget - 1
    /\ \E ok \in BOOLEAN, truncated \in BOOLEAN :
        /\ ok => ~truncated
        /\ cache' = clear
        /\ disk' = save_cache(cache', ok, truncated)
        /\ ret' = [NoRet EXCEPT !.op = "clear",
                                !.kind = IF SaveRaises(ok) THEN "error" ELSE "value",
                                !.err = IF SaveRaises(ok) THEN "DriveCacheError" ELSE ""]
        /\ log' = <<Call("clear", "", <<>>, 0, ok, "")>>
    /\ found' = NoFound
    /\ entered' = [f \in Ids |-> 0]
    /\ counted' = [f \in Ids |-> 0]
    /\ anyFail' = FALSE
    /\ UNCHANGED peer
    /\ UNCHANGED <<drive, rev, srvPage, now, pc, stack, rs, args, asked, ls>>

(* DriveCache.get_path(path), called on its own *)
GetPath(path) ==
    /\ pc = "idle"
    /\ budget > 0
    /\ budget' = budget - 1
    /\ LET cached == get_path(cache, path) IN
       ret' = [NoRet EXCEPT !.op = "get_path", !.path = path,
                            !.kind = IF cached.some THEN "value" ELSE "none",
                            !.id = cached.id, !.name = cached.name]
    /\ log' = <<Call("get_path", "", path, 0, TRUE, "")>>
    /\ found' = NoFound
    /\ entered' = [f \in Ids |-> 0]
    /\ counted' = [f \in Ids |-> 0]
    /\ anyFail' = FALSE
    /\ UNCHANGED peer
    /\ UNCHANGED <<drive, rev, srvPage, cache, disk, now, pc, stack, rs, args, asked,
                   ls>>

(* DriveCache(): a process starts and loads the backing file *)
NewDriveCache ==
    /\ pc = "off"
    /\ IF load_raises(disk)
       THEN /\ ret' = [NoRet EXCEPT !.op = "init", !.kind = "error",
                                    !.err = IF disk.state = "notdict" THEN "TypeError"
                                            ELSE "UnicodeDecodeError"]
            /\ UNCHANGED <<pc, cache>>
       ELSE /\ cache' = load_cache(disk)
            /\ pc' = "idle"
            /\ ret' = [NoRet EXCEPT !.op = "init", !.kind = "value"]
    /\ log' = <<>>
    /\ found' = NoFound
    /\ UNCHANGED peer
    /\ UNCHANGED <<drive, rev, srvPage, disk, now, stack, rs, budget, args, asked,
                   entered, counted, anyFail, ls>>

(* the process ends: what it held in memory is gone, the file stays *)
Exit ==
    /\ pc = "idle"
    /\ pc' = "off"
    /\ cache' = EmptyCache
    /\ ret' = [NoRet EXCEPT !.op = "exit"]
    /\ log' = <<>>
    /\ found' = NoFound
    /\ UNCHANGED peer
    /\ UNCHANGED <<drive, rev, srvPage, disk, now, stack, rs, budget, args, asked,
                   entered, counted, anyFail, ls>>

NextSize ==
    \/ \E folder_id \in args : CalculateFolderSize(folder_id)
    \/ FetchPage
    \/ FetchFail
    \/ AddSize
    \/ Descend
    \/ SkipVisited
    \/ SkipItem
    \/ EndPage
    \/ ReturnToCaller
    \/ ReturnTotal

-----------------------------------------------------------------------------
(* src/gdls/explorer.py: list_files *)

(* _convert_to_drive_items: one DriveItem per entry of the page *)
DriveItem(id) ==
    [id |-> id, name |-> drive[id].name, mime_type |-> drive[id].mimeType,
     size |-> drive[id].size, modified_time |-> drive[id].modifiedTime,
     owned_by_me |-> drive[id].ownedByMe, calculated_size |-> None]

convert_to_drive_items(page) == [k \in 1..Len(page) |-> DriveItem(page[k])]

is_folder(item) == item.mime_type = FOLDER_MIME

(* calculated_size or size or 0 *)
display_size(item) ==
    IF item.calculated_size.some /\ item.calculated_size.v # 0
    THEN item.calculated_size.v
    ELSE IF item.size.some /\ item.size.v # 0 THEN item.size.v
    ELSE 0

SortKeys == {"name", "size", "date", "type"}

CharCode == [c \in {"/", "A", "B", "D", "a", "b", "d", "g", "t", "x"} |->
                CASE c = "/" -> 47 [] c = "A" -> 65 [] c = "B" -> 66 [] c = "D" -> 68
                  [] c = "a" -> 97 [] c = "b" -> 98 [] c = "d" -> 100
                  [] c = "g" -> 103 [] c = "t" -> 116 [] c = "x" -> 120]

(* str.lower() *)
Lower(c) == CASE c = "A" -> "a" [] c = "B" -> "b" [] c = "D" -> "d" [] OTHER -> c

NameKey(name) == [k \in 1..Len(name) |-> CharCode[Lower(name[k])]]

(* the order of the mime types as strings *)
MimeRank(m) == CASE m = DOC_MIME -> 1 [] m = FOLDER_MIME -> 2 [] OTHER -> 3

(* datetime.min, which sorts before every modification time *)
DATETIME_MIN == 0 - 1

(* the key function of each sort, as a sequence of integers *)
SortKey(item, sort_by) ==
    CASE sort_by = "size" -> <<display_size(item)>>
      [] sort_by = "date" ->
            <<IF item.modified_time.some THEN item.modified_time.v ELSE DATETIME_MIN>>
      [] sort_by = "type" -> <<MimeRank(item.mime_type)>> \o NameKey(item.name)
      [] OTHER -> NameKey(item.name)

(* the order of Python on sequences *)
LexLess(s, t) ==
    \E k \in 1..(Min(Len(s), Len(t)) + 1) :
        /\ \A j \in 1..(k - 1) : s[j] = t[j]
        /\ IF k <= Len(s) /\ k <= Len(t) THEN s[k] < t[k]
           ELSE k > Len(s) /\ k <= Len(t)

(* a descending sort made of an ascending sort and a reversal: equal keys *)
(* come out in the opposite order                                        *)
SortThenFlip(items, sort_by, descending) ==
    LET n == Len(items)
        key == [i \in 1..n |-> SortKey(items[i], sort_by)]
        Before(i, j) ==
            \/ IF descending THEN LexLess(key[j], key[i]) ELSE LexLess(key[i], key[j])
            \/ key[i] = key[j] /\ IF descending THEN i > j ELSE i < j
        pos == [i \in 1..n |-> 1 + Cardinality({j \in 1..n : Before(j, i)})]
    IN [q \in 1..n |-> items[CHOOSE i \in 1..n : pos[i] = q]]

(* list.sort(key=..., reverse=descending) is stable: equal keys keep their order *)
StableSort(items, sort_by, descending) ==
    LET n == Len(items)
        key == [i \in 1..n |-> SortKey(items[i], sort_by)]
        Before(i, j) ==
            \/ IF descending THEN LexLess(key[j], key[i]) ELSE LexLess(key[i], key[j])
            \/ key[i] = key[j] /\ i < j
        pos == [i \in 1..n |-> 1 + Cardinality({j \in 1..n : Before(j, i)})]
    IN [q \in 1..n |-> items[CHOOSE i \in 1..n : pos[i] = q]]

(* a modification time carries a time zone and datetime.min carries none: *)
(* comparing the two raises TypeError                                     *)
SortRaises(items, options) ==
    /\ options.sort_by = "date"
    /\ \E i, j \in 1..Len(items) :
          items[i].modified_time.some /\ ~items[j].modified_time.some

(* every key sorted in ascending order *)
SortAscending(items, options) ==
    LET n == Len(items)
        key == [i \in 1..n |-> SortKey(items[i], options.sort_by)]
        Before(i, j) == LexLess(key[i], key[j]) \/ (key[i] = key[j] /\ i < j)
        pos == [i \in 1..n |-> 1 + Cardinality({j \in 1..n : Before(j, i)})]
        sorted == [q \in 1..n |-> items[CHOOSE i \in 1..n : pos[i] = q]]
    IN IF options.reverse_sort THEN Reverse(sorted) ELSE sorted

sort_items(items, options) ==
    LET sorted == StableSort(items, options.sort_by,
                             options.sort_by \in {"size", "date"})
    IN IF options.reverse_sort THEN Reverse(sorted) ELSE sorted

OwnedOnly(items, options) ==
    IF options.owned_only THEN SelectSeq(items, LAMBDA item : item.owned_by_me)
    ELSE items

(* list_files(folder_id, options): the call, up to the first page request *)
ListFiles(folder_id, options) ==
    /\ pc = "idle"
    /\ budget > 0
    /\ budget' = budget - 1
    /\ pc' = "list"
    /\ ls' = [NoList EXCEPT !.id = folder_id, !.options = options, !.phase = "fetch"]
    /\ ret' = [NoRet EXCEPT !.op = "list", !.id = folder_id]
    /\ log' = <<>>
    /\ entered' = [f \in Ids |-> 0]
    /\ counted' = [f \in Ids |-> 0]
    /\ anyFail' = FALSE
    /\ found' = NoFound
    /\ UNCHANGED peer
    /\ UNCHANGED <<drive, rev, srvPage, cache, disk, now, stack, rs, args, asked>>

(* _fetch_items: one page is answered; after the last one the owned_only *)
(* filter is applied                                                     *)
ListFetchPage ==
    /\ pc = "list"
    /\ ls.phase = "fetch"
    /\ LET listing == ListChildren(ls.id, ls.options.show_hidden)
           all_items == ls.all_items
                          \o convert_to_drive_items(PageItems(listing, ls.page_token))
           page_token == NextPageToken(listing, ls.page_token)
       IN /\ log' = Append(log, Call("list", ls.id, <<>>, ls.page_token, TRUE, ""))
          /\ ls' = IF MorePages(page_token)
                   THEN [ls EXCEPT !.all_items = all_items, !.page_token = page_token]
                   ELSE [ls EXCEPT !.all_items = all_items, !.page_token = page_token,
                                   !.items = OwnedOnly(all_items, ls.options),
                                   !.idx = 1,
                                   !.phase = IF ls.options.show_size
                                             THEN "sizes" ELSE "sort"]
    /\ UNCHANGED peer
    /\ UNCHANGED <<drive, rev, srvPage, cache, disk, now, pc, stack, rs, ret, budget,
                   args, asked, entered, counted, anyFail, found>>

PartialList(err) == [NoRet EXCEPT !.op = "list", !.id = ls.id, !.kind = "value",
                                  !.items = ls.all_items]

ListError(err) == [NoRet EXCEPT !.op = "list", !.id = ls.id, !.kind = "error",
                                !.err = err]

(* except HttpError as e: raise DriveError(...) *)
ListFetchFail ==
    /\ pc = "list"
    /\ ls.phase = "fetch"
    /\ log' = Append(log, Call("list", ls.id, <<>>, ls.page_token, FALSE, ""))
    /\ ret' = ListError("DriveError")
    /\ pc' = "idle"
    /\ ls' = [ls EXCEPT !.phase = "raised"]
    /\ anyFail' = TRUE
    /\ UNCHANGED peer
    /\ UNCHANGED <<drive, rev, srvPage, cache, disk, now, stack, rs, budget, args,
                   asked, entered, counted, found>>

InSizeLoop == pc = "list" /\ ls.phase = "sizes" /\ ls.idx <= Len(ls.items)

(* _calculate_folder_sizes: an item that is no folder is passed over *)
ListSkipFile ==
    /\ InSizeLoop
    /\ ~is_folder(ls.items[ls.idx])
    /\ ls' = [ls EXCEPT !.idx = @ + 1]
    /\ UNCHANGED peer
    /\ UNCHANGED <<drive, rev, srvPage, cache, disk, now, pc, stack, rs, ret, log,
                   budget, args, asked, entered, counted, anyFail, found>>

(* if item.owned_by_me *)
OwnedByMe(item) == item.owned_by_me

(* else: item.calculated_size = 0 *)
ListUnownedFolder ==
    /\ InSizeLoop
    /\ is_folder(ls.items[ls.idx])
    /\ ~OwnedByMe(ls.items[ls.idx])
    /\ ls' = SetCalculated(ls, 0)
    /\ UNCHANGED peer
    /\ UNCHANGED <<drive, rev, srvPage, cache, disk, now, pc, stack, rs, ret, log,
                   budget, args, asked, entered, counted, anyFail, found>>

(* item.calculated_size = self.calculate_folder_size(item.id): the cache *)
(* check and, on a miss, the call _recursive_folder_size(item.id, set()) *)
ListOwnedFolder ==
    /\ InSizeLoop
    /\ is_folder(ls.items[ls.idx])
    /\ OwnedByMe(ls.items[ls.idx])
    /\ \E t \in Clock :
        /\ t >= now
        /\ now' = t
        /\ LET folder_id == ls.items[ls.idx].id
               cached_size == get_folder_size(cache, folder_id, t)
           IN /\ log' = Append(log, Call("get_folder_size", folder_id, <<>>, 0, TRUE, ""))
              /\ IF cached_size.some
                 THEN /\ ls' = SetCalculated(ls, cached_size.v)
                      /\ UNCHANGED <<pc, stack, entered>>
                 ELSE /\ pc' = "size"
                      /\ stack' = <<NewFrame(folder_id, {})>>
                      /\ entered' = [entered EXCEPT ![folder_id] = @ + 1]
                      /\ ls' = ls
    /\ UNCHANGED peer
    /\ UNCHANGED <<drive, rev, srvPage, cache, disk, rs, ret, budget, args, asked,
                   counted, anyFail, found>>

(* return self._sort_items(items, options) *)
ListReturn ==
    /\ pc = "list"
    /\ \/ ls.phase = "sort"
       \/ ls.phase = "sizes" /\ ls.idx > Len(ls.items)
    /\ ret' = IF SortRaises(ls.items, ls.options) THEN ListError("TypeError")
              ELSE [NoRet EXCEPT !.op = "list", !.id = ls.id, !.kind = "value",
                                 !.items = sort_items(ls.items, ls.options)]
    /\ pc' = "idle"
    /\ ls' = [ls EXCEPT !.phase = IF SortRaises(ls.items, ls.options)
                                  THEN "raised" ELSE "done"]
    /\ UNCHANGED peer
    /\ UNCHANGED <<drive, rev, srvPage, cache, disk, now, stack, rs, log, budget,
                   args, asked, entered, counted, anyFail, found>>

ListOptions ==
    [show_hidden : BOOLEAN, show_size : BOOLEAN, owned_only : BOOLEAN,
     sort_by : SortKeys, reverse_sort : BOOLEAN]

NextList ==
    \/ \E folder_id \in args, options \in ListOptions : ListFiles(folder_id, options)
    \/ ListFetchPage
    \/ ListFetchFail
    \/ ListSkipFile
    \/ ListUnownedFolder
    \/ ListOwnedFolder
    \/ ListReturn
    \/ FetchPage
    \/ FetchFail
    \/ AddSize
    \/ Descend
    \/ SkipVisited
    \/ SkipItem
    \/ EndPage
    \/ ReturnToCaller
    \/ ReturnTotal

-----------------------------------------------------------------------------
(* src/gdls/paths.py: PathResolver *)

Chars == {"/", "a"}

Paths == UNION {[1..n -> Chars] : n \in 0..MaxPathLen}

ROOT_ID == "root"
ROOT_NAME == <<"My Drive">>

RECURSIVE StripLeft(_)
StripLeft(s) == IF s # <<>> /\ Head(s) = "/" THEN StripLeft(Tail(s)) ELSE s

RECURSIVE StripRight(_)
StripRight(s) ==
    IF s # <<>> /\ s[Len(s)] = "/" THEN StripRight(SubSeq(s, 1, Len(s) - 1)) ELSE s

(* path.strip('/') *)
StripSlashes(s) == StripRight(StripLeft(s))

(* str.split('/'): the pieces between slashes, empty ones included *)
RECURSIVE SplitSlash(_)
SplitSlash(s) ==
    IF s = <<>> THEN << <<>> >>
    ELSE LET rest == SplitSlash(Tail(s)) IN
         IF Head(s) = "/" THEN << <<>> >> \o rest
         ELSE << <<Head(s)>> \o rest[1] >> \o Tail(rest)

(* parts = [p for p in path.strip('/').split('/') if p] *)
PathParts(path) == SelectSeq(SplitSlash(StripSlashes(path)), LAMBDA p : p # <<>>)

IsRootPathSlashOnly(path) == path = <<"/">>

(* if not path: path = '/'; if not path or path == '/' *)
IsRootPath(path) == path = <<>> \/ path = <<"/">>

(* files().list(q="'<parent>' in parents and name='<name>' and mimeType=folder *)
(* and trashed=false", pageSize=1): the matches in the server's order          *)
FolderQuery(parent_id, folder_name) ==
    SelectSeq(IF rev THEN Reverse(IdOrder) ELSE IdOrder,
              LAMBDA i : /\ parent_id \in drive[i].parents
                         /\ drive[i].name = folder_name
                         /\ drive[i].mimeType = FOLDER_MIME
                         /\ ~drive[i].trashed)

FindFolderUnderRoot(parent_id, folder_name) == FolderQuery(ROOT_ID, folder_name)

(* _find_folder_in_parent: items of the answer *)
FindFolderInParent(parent_id, folder_name) == FolderQuery(parent_id, folder_name)

NoResolve == [path |-> <<>>, parts |-> <<>>, cur_id |-> "", cur_name |-> <<>>]

NotFoundInner(part, path) ==
    [NoRet EXCEPT !.op = "resolve", !.kind = "error",
                  !.err = "DrivePathNotFoundError", !.seg = part]

(* raise DrivePathNotFoundError(f"Folder '{part}' not found in path '{path}'") *)
NotFound(part, path) ==
    [NoRet EXCEPT !.op = "resolve", !.kind = "error",
                  !.err = "DrivePathNotFoundError", !.seg = part, !.path = path]

CachePrefix(c, part, id, name) == set_path(c, part, id, name, now)

(* the loop of _resolve_path_components stores nothing in the cache *)
CacheAfterFind(c, part, id, name) == c

(* history: the raw path entry of path in the cache *)
StoredPath(path) ==
    IF path \in DOMAIN cache.paths
    THEN [kind |-> "entry", id |-> cache.paths[path].id,
          name |-> cache.paths[path].name, size |-> 0,
          timestamp |-> cache.paths[path].timestamp, at |-> now]
    ELSE [kind |-> "absent", id |-> "", name |-> <<>>, size |-> 0,
          timestamp |-> 0, at |-> now]

(* PathResolver.resolve(path): the root, a cache hit, or the start of the walk *)
Resolve(path) ==
    /\ pc = "idle"
    /\ budget > 0
    /\ budget' = budget - 1
    /\ IF IsRootPath(path)
       THEN /\ ret' = [NoRet EXCEPT !.op = "resolve", !.kind = "value",
                                    !.id = ROOT_ID, !.name = ROOT_NAME,
                                    !.path = <<"/">>]
            /\ log' = <<>>
            /\ found' = NoFound
            /\ rs' = [NoResolve EXCEPT !.path = path]
            /\ pc' = pc
       ELSE LET cached == get_path(cache, path) IN
            /\ log' = <<Call("get_path", "", path, 0, TRUE, "")>>
            /\ found' = StoredPath(path)
            /\ IF cached.some
               THEN /\ ret' = [NoRet EXCEPT !.op = "resolve", !.kind = "value",
                                            !.id = cached.id, !.name = cached.name,
                                            !.path = cached.path]
                    /\ rs' = [NoResolve EXCEPT !.path = path]
                    /\ pc' = pc
               ELSE /\ ret' = [NoRet EXCEPT !.op = "resolve"]
                    /\ rs' = [path |-> path, parts |-> PathParts(path),
                              cur_id |-> ROOT_ID, cur_name |-> ROOT_NAME]
                    /\ pc' = "resolve"
    /\ entered' = [f \in Ids |-> 0]
    /\ counted' = [f \in Ids |-> 0]
    /\ anyFail' = FALSE
    /\ UNCHANGED peer
    /\ UNCHANGED <<drive, rev, srvPage, cache, disk, now, stack, args, asked, ls>>

(* for part in parts: current_id, current_name = _find_folder_in_parent(...) *)
FindFolder ==
    /\ pc = "resolve"
    /\ rs.parts # <<>>
    /\ LET part == Head(rs.parts)
           items == FindFolderInParent(rs.cur_id, part)
       IN IF items = <<>>
          THEN /\ log' = Append(log, Call("list", rs.cur_id, part, 0, TRUE, ""))
               /\ ret' = NotFound(part, rs.path)
               /\ pc' = "idle"
               /\ UNCHANGED <<rs, cache>>
          ELSE /\ log' = Append(log, Call("list", rs.cur_id, part, 0, TRUE, items[1]))
               /\ rs' = [rs EXCEPT !.parts = Tail(@), !.cur_id = items[1],
                                   !.cur_name = drive[items[1]].name]
               /\ cache' = CacheAfterFind(cache, part, items[1], drive[items[1]].name)
               /\ UNCHANGED <<ret, pc>>
    /\ UNCHANGED peer
    /\ UNCHANGED <<drive, rev, srvPage, disk, now, stack, budget, args, asked,
                   entered, counted, anyFail, found, ls>>

(* the query raises HttpError: DrivePathNotFoundError, raised again by the loop *)
(* the remote error leaves resolve as it came *)
HttpErrorEscapes ==
    /\ pc = "resolve"
    /\ rs.parts # <<>>
    /\ LET part == Head(rs.parts) IN
       /\ log' = Append(log, Call("list", rs.cur_id, part, 0, FALSE, ""))
       /\ ret' = [NotFound(part, rs.path) EXCEPT !.err = "HttpError"]
    /\ pc' = "idle"
    /\ anyFail' = TRUE
    /\ UNCHANGED peer
    /\ UNCHANGED <<drive, rev, srvPage, cache, disk, now, stack, rs, budget, args,
                   asked, entered, counted, found, ls>>

FindFolderHttpError ==
    /\ pc = "resolve"
    /\ rs.parts # <<>>
    /\ LET part == Head(rs.parts) IN
       /\ log' = Append(log, Call("list", rs.cur_id, part, 0, FALSE, ""))
       /\ ret' = NotFound(part, rs.path)
    /\ pc' = "idle"
    /\ anyFail' = TRUE
    /\ UNCHANGED peer
    /\ UNCHANGED <<drive, rev, srvPage, cache, disk, now, stack, rs, budget, args,
                   asked, entered, counted, found, ls>>

(* return PathInfo(...); self.cache.set_path(path, path_info); return *)
ResolveDone ==
    /\ pc = "resolve"
    /\ rs.parts = <<>>
    /\ \E t \in Clock, ok \in BOOLEAN, truncated \in BOOLEAN :
        /\ t >= now
        /\ ok => ~truncated
        /\ now' = t
        /\ cache' = set_path(cache, rs.path, rs.cur_id, rs.cur_name, t)
        /\ disk' = save_cache(cache', ok, truncated)
        /\ log' = Append(log, Call("set_path", rs.cur_id, rs.path, 0, ok, ""))
        /\ ret' = IF ~SaveRaises(ok)
                  THEN [NoRet EXCEPT !.op = "resolve", !.kind = "value",
                                     !.id = rs.cur_id, !.name = rs.cur_name,
                                     !.path = rs.path]
                  ELSE [NoRet EXCEPT !.op = "resolve", !.kind = "error",
                                     !.err = "DriveCacheError"]
    /\ pc' = "idle"
    /\ UNCHANGED peer
    /\ UNCHANGED <<drive, rev, srvPage, stack, rs, budget, args, asked, entered,
                   counted, anyFail, found, ls>>

(* time passes between two operations *)
Tick ==
    /\ pc = "idle"
    /\ \E t \in Clock : t > now /\ now' = t
    /\ UNCHANGED <<drive, rev, srvPage, cache, disk, pc, stack, rs, ret, log,
                   budget, args, asked, entered, counted, anyFail, found, ls, peer>>

(* the remote store changes: a folder is trashed or restored *)
RemoteChange ==
    /\ \E f \in {"A", "B"} : drive' = [drive EXCEPT ![f].trashed = ~@]
    /\ UNCHANGED <<rev, srvPage, cache, disk, now, pc, stack, rs, ret, log,
                   budget, args, asked, entered, counted, anyFail, found, ls, peer>>

NextResolve ==
    \/ \E path \in asked : Resolve(path)
    \/ FindFolder
    \/ FindFolderHttpError
    \/ ResolveDone
    \/ Clear
    \/ Tick
    \/ RemoteChange

(* one process after the other on one backing file *)
NextCache ==
    \/ NewDriveCache
    \/ Exit
    \/ \E path \in asked : Resolve(path)
    \/ FindFolder
    \/ FindFolderHttpError
    \/ ResolveDone
    \/ NextSize
    \/ \E folder_id \in args : GetFolderSize(folder_id)
    \/ \E path \in asked : GetPath(path)
    \/ Clear
    \/ Tick

-----------------------------------------------------------------------------
(* Initial states *)

Entry(id, parents) ==
    [name |-> <<id>>,
     mimeType |-> IF id \in Folders THEN FOLDER_MIME
                  ELSE IF id = "g" THEN DOC_MIME ELSE PLAIN_MIME,
     size |-> IF id = "x" THEN Some(5) ELSE IF id = "t" THEN Some(100) ELSE None,
     parents |-> parents,
     trashed |-> (id = "t"),
     ownedByMe |-> TRUE,
     modifiedTime |-> None]

AllLinks == Folders \X Ids

DriveOf(links) == [i \in Ids |-> Entry(i, {l[1] : l \in {m \in links : m[2] = i}})]

LinkSets == {L \in SUBSET AllLinks : Cardinality(L) <= MaxLinks}

(* folders that links of L lead to from the folders of S *)
LinkedFrom(L, S) == S \cup {l[2] : l \in {m \in L : m[1] \in S /\ m[2] \in Folders}}

Below(L, S) == LinkedFrom(L, LinkedFrom(L, LinkedFrom(L, S)))

(* every entry of the store lies below a folder of S: what lies elsewhere *)
(* is never listed by a call on S                                         *)
RootedAt(L, S) == \A l \in L : l[1] \in Below(L, S)

InitCommon ==
    /\ pc = "idle"
    /\ stack = <<>>
    /\ rs = NoResolve
    /\ ret = NoRet
    /\ log = <<>>
    /\ entered = [f \in Ids |-> 0]
    /\ counted = [f \in Ids |-> 0]
    /\ anyFail = FALSE
    /\ found = NoFound
    /\ ls = NoList
    /\ peer = NoPeer

(* One cold size calculation over every small remote store *)
InitSize ==
    /\ InitCommon
    /\ args = {"A"}
    /\ asked = {}
    /\ \E L \in LinkSets : RootedAt(L, args) /\ drive = DriveOf(L)
    /\ rev \in BOOLEAN
    /\ srvPage \in 1..MaxPage
    /\ disk = [state |-> "missing", data |-> json_dump(EmptyCache)]
    /\ cache = load_cache(disk)
    /\ now = ClockMax
    /\ budget = 1

SpecSize == InitSize /\ [][NextSize]_vars


(* Size calculations and cache reads over time, on a cache loaded from the *)
(* backing file                                                           *)
TTLLinks == {<<"A", "x">>, <<"A", "B">>, <<"B", "x">>, <<"B", "A">>, <<"B", "g">>}

LoadedSizes ==
    Put(EmptyMap, cache_key("A"), [size |-> 7, timestamp |-> 0])

DiskFiles ==
    {[state |-> "missing", data |-> json_dump(EmptyCache)],
     [state |-> "corrupt", data |-> json_dump(EmptyCache)],
     [state |-> "ok", data |-> json_dump([paths |-> EmptyMap, folder_sizes |-> LoadedSizes])]}

InitTTL ==
    /\ InitCommon
    /\ args = {"A", "B"}
    /\ asked = {}
    /\ \E L \in SUBSET TTLLinks : drive = DriveOf(L)
    /\ rev = FALSE
    /\ srvPage = MaxPage
    /\ disk \in DiskFiles
    /\ cache = load_cache(disk)
    /\ now = 0
    /\ budget = MaxOps

NextTTL ==
    \/ NextSize
    \/ \E folder_id \in args : GetFolderSize(folder_id)
    \/ Clear

SpecTTL == InitTTL /\ [][NextTTL]_vars

(* Path resolution over time: a store with a nested and a twice-used name, *)
(* a cache loaded from the backing file, one or two paths asked for        *)
ResolveEntry(id, variant) ==
    [name |-> IF id = "x" THEN <<"a", "a">>
              ELSE IF id = "D" /\ variant = 2 THEN <<"a", "a">> ELSE <<"a">>,
     mimeType |-> IF id \in Folders THEN FOLDER_MIME
                  ELSE IF id = "g" THEN DOC_MIME ELSE PLAIN_MIME,
     size |-> IF id = "x" THEN Some(5) ELSE None,
     parents |-> IF id \in {"A", "x"} THEN {ROOT_ID}
                 ELSE IF id = "B" THEN {"A"}
                 ELSE IF id = "D" THEN (IF variant = 1 THEN {ROOT_ID} ELSE {"A"})
                 ELSE {},
     trashed |-> FALSE,
     ownedByMe |-> TRUE,
     modifiedTime |-> None]

ResolveDrives == {[i \in Ids |-> ResolveEntry(i, variant)] : variant \in 1..2}

LoadedPaths ==
    Put(Put(EmptyMap, <<"/">>, [id |-> "B", name |-> <<"a">>, timestamp |-> 0]),
        <<"a">>, [id |-> "B", name |-> <<"a">>, timestamp |-> 0])

PathDiskFiles ==
    {[state |-> "missing", data |-> json_dump(EmptyCache)],
     [state |-> "ok", data |-> json_dump([paths |-> LoadedPaths, folder_sizes |-> EmptyMap])]}

InitResolve ==
    /\ InitCommon
    /\ args = {}
    /\ asked \in {{p} : p \in Paths}
    /\ drive \in ResolveDrives
    /\ rev \in BOOLEAN
    /\ srvPage = 1
    /\ disk \in PathDiskFiles
    /\ cache = load_cache(disk)
    /\ now = 0
    /\ budget = MaxOps

SpecResolve == InitResolve /\ [][NextResolve]_vars

(* Size calculations over stores in which folders below the one asked for *)
(* belong to another account                                              *)
OwnLinks == {<<"A", "x">>, <<"A", "B">>, <<"B", "x">>, <<"B", "A">>, <<"B", "g">>,
             <<"B", "D">>, <<"D", "x">>}

OwnedBy(d, unowned) == [i \in Ids |-> [d[i] EXCEPT !.ownedByMe = i \notin unowned]]

InitOwn ==
    /\ InitCommon
    /\ args = {"A"}
    /\ asked = {}
    /\ \E L \in SUBSET OwnLinks, U \in SUBSET {"B", "D"} :
          drive = OwnedBy(DriveOf(L), U)
    /\ rev = FALSE
    /\ srvPage = MaxPage
    /\ disk = [state |-> "missing", data |-> json_dump(EmptyCache)]
    /\ cache = load_cache(disk)
    /\ now = 0
    /\ budget = 1

SpecOwn == InitOwn /\ [][NextSize]_vars

(* Listings with sizes: folder A holds folders B and D, which hold each    *)
(* other, and files; B and D may belong to another account; the cache may *)
(* hold sizes of B and D                                                  *)
ListLinks == {<<"A", "B">>, <<"A", "D">>, <<"A", "x">>, <<"A", "t">>,
              <<"B", "x">>, <<"B", "g">>, <<"B", "t">>, <<"D", "B">>, <<"B", "D">>}

ListSizes ==
    Put(Put(EmptyMap, cache_key("B"), [size |-> 7, timestamp |-> ClockMax]),
        cache_key("D"), [size |-> 9, timestamp |-> ClockMax])

ListDiskFiles ==
    {[state |-> "missing", data |-> json_dump(EmptyCache)],
     [state |-> "ok", data |-> json_dump([paths |-> EmptyMap, folder_sizes |-> ListSizes])]}

InitList ==
    /\ InitCommon
    /\ args = {"A"}
    /\ asked = {}
    /\ \E U \in SUBSET {"B", "D"} : drive = OwnedBy(DriveOf(ListLinks), U)
    /\ rev \in BOOLEAN
    /\ srvPage \in 1..MaxPage
    /\ disk \in ListDiskFiles
    /\ cache = load_cache(disk)
    /\ now = ClockMax
    /\ budget = 1

SpecList == InitList /\ [][NextList]_vars

(* Listings to sort: folder A holds folder B and the files x, g and t; the *)
(* files take every size, or every modification time, or g takes the name  *)
(* and the type of x                                                       *)
SortLinks == {<<"A", "B">>, <<"A", "x">>, <<"A", "g">>, <<"A", "t">>,
              <<"B", "x">>, <<"B", "D">>, <<"D", "B">>}

SortSizes == {None, Some(1), Some(5), Some(100)}

SortTimes == {None, Some(1), Some(2)}

SortEntry(id, size, modifiedTime, name, mimeType) ==
    [Entry(id, {l[1] : l \in {m \in SortLinks : m[2] = id}})
        EXCEPT !.size = size, !.modifiedTime = modifiedTime, !.name = name,
               !.mimeType = mimeType, !.trashed = FALSE]

SortDrive(sz, tm, name, mimeType) ==
    [i \in Ids |->
        IF i \in Files
        THEN SortEntry(i, sz[i], tm[i], IF i = "g" THEN name ELSE <<i>>,
                       IF i = "g" THEN mimeType ELSE PLAIN_MIME)
        ELSE SortEntry(i, None, None, <<i>>, FOLDER_MIME)]

SortDrives ==
    {OwnedBy(SortDrive(sz, [i \in Files |-> None], <<"g">>, DOC_MIME), U) :
        sz \in [Files -> SortSizes], U \in SUBSET {"B"}}
    \cup {SortDrive([i \in Files |-> Some(5)], tm, <<"g">>, DOC_MIME) :
            tm \in [Files -> SortTimes]}
    \cup {SortDrive([i \in Files |-> Some(5)], [i \in Files |-> None], name, m) :
            name \in {<<"g">>, <<"x">>}, m \in {DOC_MIME, PLAIN_MIME}}

InitSort ==
    /\ InitCommon
    /\ args = {"A"}
    /\ asked = {}
    /\ drive \in SortDrives
    /\ rev \in BOOLEAN
    /\ srvPage = MaxPage
    /\ disk = [state |-> "missing", data |-> json_dump(EmptyCache)]
    /\ cache = load_cache(disk)
    /\ now = ClockMax
    /\ budget = 1

SpecSort == InitSort /\ [][NextList]_vars

(* Processes on a backing file in every state a file can be in: absent,   *)
(* unreadable, no text, no JSON, JSON that is no object, an object with   *)
(* one key only, and a cache written before                               *)
CacheDrive ==
    [i \in Ids |-> [ResolveEntry(i, 2) EXCEPT
                       !.parents = IF i \in {"x", "g"} THEN {"A"}
                                   ELSE IF i = "A" THEN {ROOT_ID, "B"} ELSE @]]

CacheFiles ==
    {[state |-> st, data |-> json_dump(EmptyCache)] :
        st \in {"missing", "unreadable", "undecodable", "corrupt", "notdict"}}
    \cup {[state |-> "ok",
           data |-> json_dump([paths |-> LoadedPaths, folder_sizes |-> LoadedSizes])],
          [state |-> "ok", data |-> json_dump([paths |-> LoadedPaths])]}

InitCache ==
    /\ pc = "off"
    /\ stack = <<>>
    /\ rs = NoResolve
    /\ ret = NoRet
    /\ log = <<>>
    /\ entered = [f \in Ids |-> 0]
    /\ counted = [f \in Ids |-> 0]
    /\ anyFail = FALSE
    /\ found = NoFound
    /\ ls = NoList
    /\ peer = NoPeer
    /\ args = {"A"}
    /\ asked = {<<"a">>}
    /\ drive = CacheDrive
    /\ rev = FALSE
    /\ srvPage = MaxPage
    /\ disk \in CacheFiles
    /\ cache = EmptyCache
    /\ now = 0
    /\ budget = MaxOps

SpecCache == InitCache /\ [][NextCache]_vars

(* A second process on the same backing file: it constructs its own       *)
(* DriveCache, which loads the file once, and every mutation of it writes *)
(* its own _cache_data over the file                                      *)
PeerNewDriveCache ==
    /\ peer.state = "off"
    /\ peer' = IF load_raises(disk) THEN [peer EXCEPT !.state = "done"]
               ELSE [peer EXCEPT !.state = "on", !.cache_data = load_cache(disk)]
    /\ UNCHANGED <<drive, rev, srvPage, cache, disk, now, pc, stack, rs, ret, log,
                   budget, args, asked, entered, counted, anyFail, found, ls>>

PeerSetFolderSize(folder_id, size) ==
    /\ peer.state = "on"
    /\ peer.budget > 0
    /\ \E ok \in BOOLEAN, truncated \in BOOLEAN :
        /\ ok => ~truncated
        /\ peer' = [peer EXCEPT
                       !.cache_data = set_folder_size(@, folder_id, size, now),
                       !.budget = @ - 1,
                       !.state = IF SaveRaises(ok) THEN "done" ELSE "on"]
        /\ disk' = save_cache(peer'.cache_data, ok, truncated)
    /\ UNCHANGED <<drive, rev, srvPage, cache, now, pc, stack, rs, ret, log,
                   budget, args, asked, entered, counted, anyFail, found, ls>>

PeerSetPath(path, id, name) ==
    /\ peer.state = "on"
    /\ peer.budget > 0
    /\ \E ok \in BOOLEAN, truncated \in BOOLEAN :
        /\ ok => ~truncated
        /\ peer' = [peer EXCEPT
                       !.cache_data = set_path(@, path, id, name, now),
                       !.budget = @ - 1,
                       !.state = IF SaveRaises(ok) THEN "done" ELSE "on"]
        /\ disk' = save_cache(peer'.cache_data, ok, truncated)
    /\ UNCHANGED <<drive, rev, srvPage, cache, now, pc, stack, rs, ret, log,
                   budget, args, asked, entered, counted, anyFail, found, ls>>

PeerExit ==
    /\ peer.state = "on"
    /\ peer' = [peer EXCEPT !.state = "done", !.cache_data = EmptyCache]
    /\ UNCHANGED <<drive, rev, srvPage, cache, disk, now, pc, stack, rs, ret, log,
                   budget, args, asked, entered, counted, anyFail, found, ls>>

NextShared ==
    \/ NextCache
    \/ PeerNewDriveCache
    \/ PeerSetFolderSize("B", 7)
    \/ PeerSetPath(<<"a", "/", "a">>, "B", <<"a">>)
    \/ PeerExit

(* two processes started on a file that is absent or holds an empty cache *)
InitShared ==
    /\ pc = "off"
    /\ stack = <<>>
    /\ rs = NoResolve
    /\ ret = NoRet
    /\ log = <<>>
    /\ entered = [f \in Ids |-> 0]
    /\ counted = [f \in Ids |-> 0]
    /\ anyFail = FALSE
    /\ found = NoFound
    /\ ls = NoList
    /\ peer = NoPeer
    /\ args = {"A"}
    /\ asked = {<<"a">>}
    /\ drive = CacheDrive
    /\ rev = FALSE
    /\ srvPage = MaxPage
    /\ disk \in {[state |-> "missing", data |-> json_dump(EmptyCache)],
                 [state |-> "ok", data |-> json_dump(EmptyCache)]}
    /\ cache = EmptyCache
    /\ now = 0
    /\ budget = MaxOps

SpecShared == InitShared /\ [][NextShared]_vars

(* a size calculation runs to its end when its steps are taken *)
SpecSizeFair == InitSize /\ [][NextSize]_vars /\ WF_vars(NextSize)

-----------------------------------------------------------------------------
(* The folder graph a size traversal walks, stated on the remote store *)

SizeChildren(f) == {i \in Ids : f \in drive[i].parents /\ ~drive[i].trashed}

Sized(i) == drive[i].size.some /\ ~drive[i].trashed

FolderSeqs == UNION {[1..n -> Folders] : n \in 1..Cardinality(Folders)}

(* descent paths from start: each folder a child of the one before, none twice *)
SimplePaths(start) ==
    {p \in FolderSeqs :
        /\ p[1] = start
        /\ \A i, j \in 1..Len(p) : i # j => p[i] # p[j]
        /\ \A i \in 1..(Len(p) - 1) : p[i + 1] \in SizeChildren(p[i])}

PathsTo(start, f) == {p \in SimplePaths(start) : p[Len(p)] = f}

Reach(start) == {p[Len(p)] : p \in SimplePaths(start)}

(* some descent path from start comes back to a folder that lies on it *)
HasCycleFrom(start) ==
    \E p \in SimplePaths(start) : \E k \in 1..Len(p) : p[k] \in SizeChildren(p[Len(p)])

(* descent paths from start that end in a parent of entry i *)
PathsToParents(start, i) ==
    {p \in SimplePaths(start) : p[Len(p)] \in drive[i].parents}

SizedIds == {i \in Ids : Sized(i)}

ReachableFiles(start) == {i \in SizedIds : drive[i].parents \cap Reach(start) # {}}

SumOfReachable(start) ==
    SumFn([i \in Ids |-> drive[i].size.v], ReachableFiles(start))

SumPerPath(start) ==
    SumFn([i \in Ids |-> drive[i].size.v * Cardinality(PathsToParents(start, i))],
          SizedIds)

SizeRunning == pc = "size"

(* a traversal was made, it met no fetch failure and its total was returned *)
SizeComputed ==
    /\ pc = "idle"
    /\ ret.op = "size"
    /\ ret.kind = "value"
    /\ entered[ret.id] = 1
    /\ ~anyFail

-----------------------------------------------------------------------------
(* C1: on a folder graph with a cycle the size calculation terminates; a    *)
(* folder already on the current descent path is never descended into (no  *)
(* folder lies twice on the stack), and in a complete run every folder that *)
(* one descent path leads to is traversed once, its files counted once.     *)
C1_NoReentry ==
    \A i, j \in 1..Len(stack) : i # j => stack[i].id # stack[j].id

C1_CycleCountedOnce ==
    (SizeComputed /\ HasCycleFrom(ret.id)) =>
        /\ \A f \in Folders :
              Cardinality(PathsTo(ret.id, f)) = 1 => entered[f] = 1
        /\ \A i \in SizedIds :
              Cardinality(PathsToParents(ret.id, i)) = 1 => counted[i] = 1

C1_Terminates ==
    /\ [](C1_NoReentry /\ C1_CycleCountedOnce)
    /\ (SizeRunning ~> ~SizeRunning)

C1_Witness ==
    /\ SizeComputed
    /\ HasCycleFrom(ret.id)
    /\ \E f \in Folders \ {ret.id} : entered[f] = 1 /\ ret.id \in SizeChildren(f)
    /\ ret.val > 0

(* C2, as claimed: on an acyclic graph the total is the sum of the sizes of *)
(* the files reachable from the folder.                                     *)
C2_Original ==
    (SizeComputed /\ ~HasCycleFrom(ret.id)) => ret.val = SumOfReachable(ret.id)

(* C2, amended: on an acyclic graph the total counts every reachable file   *)
(* once per descent path that leads to it; it is the plain sum when no file *)
(* is reached along two paths.                                              *)
C2_SumPerPath ==
    (SizeComputed /\ ~HasCycleFrom(ret.id)) =>
        /\ ret.val = SumPerPath(ret.id)
        /\ (\A i \in SizedIds : Cardinality(PathsToParents(ret.id, i)) <= 1)
              => ret.val = SumOfReachable(ret.id)

C2_Witness ==
    /\ SizeComputed
    /\ ~HasCycleFrom(ret.id)
    /\ Len(RemoteCalls) >= 3
    /\ \E k \in 1..Len(RemoteCalls) : RemoteCalls[k].token > 0
    /\ ret.val = SumOfReachable(ret.id)
    /\ ret.val > 0

(* C3: a folder reached along two descent paths is traversed once per path: *)
(* each frame's visited set is exactly the folders on its own descent path, *)
(* and a complete run enters every folder as often as paths lead to it.     *)
C3_OncePerPath ==
    /\ \A k \in 1..Len(stack) :
          stack[k].visited = {stack[j].id : j \in 1..k}
    /\ SizeComputed =>
          \A f \in Folders : entered[f] = Cardinality(PathsTo(ret.id, f))

C3_Witness ==
    /\ SizeComputed
    /\ \E f \in Folders :
          /\ Cardinality(PathsTo(ret.id, f)) = 2
          /\ entered[f] = 2
          /\ \E i \in SizedIds : f \in drive[i].parents /\ counted[i] >= 2


-----------------------------------------------------------------------------
(* the size entry of folder id now in the cache, and whether one is there *)
HasSizeEntry(id) == cache_key(id) \in DOMAIN cache.folder_sizes

SizeEntry(id) == cache.folder_sizes[cache_key(id)]

(* C4: get_folder_size(id) returns the stored size exactly when an entry    *)
(* for id exists and now - timestamp <= 3600, and nothing in every other    *)
(* case; a size older than the TTL is never returned.                       *)
C4_FreshOnly ==
    ret.op = "get_folder_size" =>
        LET fresh == /\ HasSizeEntry(ret.id)
                     /\ now - SizeEntry(ret.id).timestamp <= 3600
        IN /\ ret.kind \in {"value", "none"}
           /\ (ret.kind = "value") <=> fresh
           /\ fresh => ret.val = SizeEntry(ret.id).size

C4_Witness ==
    /\ ret.op = "get_folder_size"
    /\ ret.kind = "value"
    /\ HasSizeEntry(ret.id)
    /\ now - SizeEntry(ret.id).timestamp = 3600

FoundFresh == found.kind = "entry" /\ found.at - found.timestamp <= 3600

FoundExpired == found.kind = "entry" /\ found.at - found.timestamp > 3600

(* C5: calculate_folder_size(id) on an entry within the TTL returns the     *)
(* cached value with no remote call and leaves the entry as it is; on an    *)
(* entry older than the TTL it traverses the remote store again and stores  *)
(* the new total under a new timestamp.                                     *)
C5_HitOrRecompute ==
    /\ (pc = "idle" /\ ret.op = "size" /\ FoundFresh) =>
          /\ ret.kind = "value"
          /\ ret.val = found.size
          /\ RemoteCalls = <<>>
          /\ entered[ret.id] = 0
          /\ SizeEntry(ret.id) = [size |-> found.size, timestamp |-> found.timestamp]
    /\ (pc = "size") => ~FoundFresh
    /\ (pc = "idle" /\ ret.op = "size" /\ FoundExpired) =>
          /\ entered[ret.id] = 1
          /\ Len(RemoteCalls) >= 1
          /\ RemoteCalls[1].id = ret.id
          /\ SizeEntry(ret.id).timestamp = now
          /\ SizeEntry(ret.id).timestamp > found.timestamp
          /\ ret.kind = "value" => SizeEntry(ret.id).size = ret.val
          /\ (ret.kind = "value" /\ ~anyFail) => ret.val = SumPerPath(ret.id)

C5_Witness ==
    /\ pc = "idle"
    /\ ret.op = "size"
    /\ ret.kind = "value"
    /\ found.kind = "entry"
    /\ found.at - found.timestamp = 3601
    /\ ~anyFail
    /\ ret.val # found.size
    /\ SizeEntry(ret.id) = [size |-> ret.val, timestamp |-> now]


-----------------------------------------------------------------------------
(* The segments of a path, stated on its characters: a segment is a maximal *)
(* run of characters other than the slash                                   *)
SegStarts(path) ==
    {i \in 1..Len(path) : path[i] # "/" /\ (i = 1 \/ path[i - 1] = "/")}

SegEnd(path, i) ==
    CHOOSE j \in i..Len(path) :
        /\ \A m \in i..j : path[m] # "/"
        /\ (j = Len(path) \/ path[j + 1] = "/")

NthStart(path, k) ==
    CHOOSE i \in SegStarts(path) :
        Cardinality({m \in SegStarts(path) : m < i}) = k - 1

Segment(path, k) == SubSeq(path, NthStart(path, k), SegEnd(path, NthStart(path, k)))

NSegments(path) == Cardinality(SegStarts(path))

ResolveEnded == pc = "idle" /\ ret.op = "resolve"

PathNotFound == ret.kind = "error" /\ ret.err = "DrivePathNotFoundError"

(* C6: a cold resolve of a path whose n segments all exist issues exactly n *)
(* lookups, the k-th for the k-th segment under the folder the lookup       *)
(* before it matched (the first under root), and stores the path; a resolve *)
(* that finds the path stored issues no lookup.                             *)
C6_LookupPerSegment ==
    /\ (ResolveEnded /\ found.kind = "absent" /\ ~PathNotFound) =>
          LET n == NSegments(rs.path) IN
          /\ Len(RemoteCalls) = n
          /\ \A k \in 1..n :
                /\ RemoteCalls[k].ok
                /\ RemoteCalls[k].name = Segment(rs.path, k)
                /\ RemoteCalls[k].id = IF k = 1 THEN "root" ELSE RemoteCalls[k - 1].res
                /\ RemoteCalls[k].res \in Folders
                /\ drive[RemoteCalls[k].res].name = Segment(rs.path, k)
                /\ RemoteCalls[k].id \in drive[RemoteCalls[k].res].parents
          /\ rs.path \in DOMAIN cache.paths
          /\ cache.paths[rs.path].id = IF n = 0 THEN "root" ELSE RemoteCalls[n].res
          /\ ret.kind = "value" => ret.id = cache.paths[rs.path].id
    /\ (ResolveEnded /\ found.kind = "entry") => RemoteCalls = <<>>

C6_Witness ==
    /\ ResolveEnded
    /\ rs.path = <<"/", "a", "/", "a">>
    /\ found.kind = "entry"
    /\ budget = MaxOps - 2
    /\ ret.kind = "value"
    /\ ret.id = "B"
    /\ RemoteCalls = <<>>

(* C7: resolve('') and resolve('/') return the root identifier and call     *)
(* neither the remote service nor the cache, and no step of them changes    *)
(* the cache or the backing file, whatever these hold.                      *)
C7_RootImmediate ==
    /\ [](ResolveEnded /\ rs.path \in {<<>>, <<"/">>} =>
            /\ ret.kind = "value"
            /\ ret.id = "root"
            /\ ret.name = <<"My Drive">>
            /\ log = <<>>)
    /\ [][(ret'.op = "resolve" /\ rs'.path \in {<<>>, <<"/">>}) =>
            (cache' = cache /\ disk' = disk)]_vars

C7_Witness ==
    /\ ResolveEnded
    /\ rs.path = <<>>
    /\ ret.id = "root"
    /\ <<"/">> \in DOMAIN cache.paths
    /\ cache.paths[<<"/">>].id = "B"
    /\ \E f \in Folders : drive[f].trashed

(* no folder that is not trashed has this name under this parent *)
NoMatch(parent, name) ==
    ~\E f \in Folders :
        ~drive[f].trashed /\ drive[f].name = name /\ parent \in drive[f].parents

LookupStep == pc = "resolve" /\ Len(log') = Len(log) + 1 /\ log'[Len(log')].call = "list"

(* C8: a lookup that answers with no matching folder ends resolve with      *)
(* DrivePathNotFoundError naming that segment and the whole requested path; *)
(* the failing lookup is the last one issued.                               *)
C8_NotFoundNamesSegment ==
    /\ []((ResolveEnded /\ PathNotFound) =>
            LET k == Len(RemoteCalls) IN
            /\ k >= 1
            /\ k <= NSegments(rs.path)
            /\ ret.seg = Segment(rs.path, k)
            /\ ret.path = rs.path
            /\ RemoteCalls[k].name = ret.seg
            /\ RemoteCalls[k].res = ""
            /\ \A j \in 1..(k - 1) :
                  /\ RemoteCalls[j].res # ""
                  /\ RemoteCalls[j].name = Segment(rs.path, j))
    /\ [][(LookupStep /\ log'[Len(log')].ok) =>
            LET last == log'[Len(log')] IN
            NoMatch(last.id, last.name) <=>
                (pc' = "idle" /\ ret'.kind = "error"
                 /\ ret'.err = "DrivePathNotFoundError")]_vars

C8_Witness ==
    /\ ResolveEnded
    /\ PathNotFound
    /\ Len(RemoteCalls) = 2
    /\ RemoteCalls[1].res = "A"
    /\ RemoteCalls[2].ok
    /\ ret.seg = <<"a", "a">>
    /\ ret.path = <<"a", "/", "a", "a">>

(* C9: no step of a resolve that ends with DrivePathNotFoundError changes   *)
(* the cache, in memory or in the backing file: only the step that ends a   *)
(* complete walk writes.                                                    *)
C9_FailedResolveKeepsCache ==
    [][(ret'.op = "resolve"
        /\ ~(pc = "resolve" /\ pc' = "idle" /\ ret'.err # "DrivePathNotFoundError"))
       => (cache' = cache /\ disk' = disk)]_vars

C9_Witness ==
    /\ ResolveEnded
    /\ PathNotFound
    /\ Len(RemoteCalls) = 2
    /\ RemoteCalls[1].res # ""
    /\ cache = EmptyCache
    /\ disk.state = "missing"

(* C10: a stored path is returned as stored, with no lookup, whatever its   *)
(* age and whatever the remote store has become; path entries stay until    *)
(* clear(), clear() empties them, and the resolve after clear() starts the  *)
(* walk over the remote store again.                                        *)
C10_PathNeverExpires ==
    /\ []((ResolveEnded /\ found.kind = "entry") =>
            /\ RemoteCalls = <<>>
            /\ ret.kind = "value"
            /\ ret.id = found.id
            /\ ret.name = found.name
            /\ ret.path = rs.path)
    /\ [][ret'.op # "clear" =>
            \A p \in DOMAIN cache.paths :
                /\ p \in DOMAIN cache'.paths
                /\ cache'.paths[p].id = cache.paths[p].id
                /\ cache'.paths[p].name = cache.paths[p].name]_vars
    /\ [][(ret.op # "clear" /\ ret'.op = "clear") => DOMAIN cache'.paths = {}]_vars
    /\ [][(ret.op = "clear" /\ ret'.op = "resolve" /\ rs'.path \notin {<<>>, <<"/">>}) =>
            (found'.kind = "absent" /\ pc' = "resolve")]_vars

C10_Witness ==
    /\ ResolveEnded
    /\ found.kind = "entry"
    /\ found.at - found.timestamp = 3601
    /\ found.id \in Folders
    /\ drive[found.id].trashed
    /\ ret.kind = "value"
    /\ ret.id = found.id
    /\ RemoteCalls = <<>>


-----------------------------------------------------------------------------
(* Two spellings of one path: the same non-empty segments in the same order *)
SameSegments(p, q) ==
    /\ NSegments(p) = NSegments(q)
    /\ \A k \in 1..NSegments(p) : Segment(p, k) = Segment(q, k)

Spellings == {S \in {{p, q} : p \in Paths, q \in Paths} :
                 /\ Cardinality(S) = 2
                 /\ \A p \in S, q \in S : SameSegments(p, q) /\ NSegments(p) >= 1}

(* One process resolving two spellings of one path, from an empty cache *)
InitSpell ==
    /\ InitCommon
    /\ args = {}
    /\ asked \in Spellings
    /\ drive \in ResolveDrives
    /\ rev = FALSE
    /\ srvPage = 1
    /\ cache = EmptyCache
    /\ disk = [state |-> "missing", data |-> json_dump(EmptyCache)]
    /\ now = 0
    /\ budget = MaxOps

SpecSpell == InitSpell /\ [][NextResolve]_vars

(* C11: once one spelling of a path is stored, a resolve of another         *)
(* spelling of the same segments is a cache hit: it issues no remote lookup *)
(* and the spellings share one cache entry.                                 *)
C11_SpellingsShareEntry ==
    /\ (ResolveEnded /\ ~IsRootPath(rs.path)
        /\ \E p \in DOMAIN cache.paths : p # rs.path /\ SameSegments(p, rs.path))
       => RemoteCalls = <<>>
    /\ \A p \in DOMAIN cache.paths, q \in DOMAIN cache.paths :
          SameSegments(p, q) => p = q


-----------------------------------------------------------------------------
(* descent paths from start that pass only through folders the caller owns *)
OwnedPathsToParents(start, i) ==
    {p \in PathsToParents(start, i) : \A k \in 1..Len(p) : drive[p[k]].ownedByMe}

SumPerOwnedPath(start) ==
    SumFn([i \in Ids |-> drive[i].size.v * Cardinality(OwnedPathsToParents(start, i))],
          SizedIds)

(* C12: the total of an owned folder holds nothing from inside a folder the *)
(* caller does not own: it counts files only along descent paths made of    *)
(* owned folders.                                                           *)
C12_UnownedContributeZero ==
    (SizeComputed /\ drive[ret.id].ownedByMe) => ret.val = SumPerOwnedPath(ret.id)


-----------------------------------------------------------------------------
ListEnded == pc = "idle" /\ ret.op = "list"

(* calls of the current operation made for folder id: remote or cache *)
CallsFor(id) == SelectSeq(log, LAMBDA e : e.id = id)

(* C13: with show_size, a listed folder the caller does not own gets        *)
(* calculated size 0, and it is not traversed: the call enters no frame for *)
(* it and calls neither the remote service nor the cache for it.            *)
C13_UnownedNotTraversed ==
    (ListEnded /\ ret.kind = "value" /\ ls.options.show_size) =>
        \A k \in 1..Len(ret.items) :
            (is_folder(ret.items[k]) /\ ~ret.items[k].owned_by_me) =>
                /\ ret.items[k].calculated_size = Some(0)
                /\ entered[ret.items[k].id] = 0
                /\ CallsFor(ret.items[k].id) = <<>>

ListingCalls == SelectSeq(log, LAMBDA e : e.call = "list" /\ e.id = ls.id)

(* C14: a failing page fetch of the listing ends list_files with DriveError: *)
(* no item is returned, whatever the pages before it held, no folder size is *)
(* asked for or calculated, and the cache and its file stay as they were.    *)
C14_FetchFailureAborts ==
    /\ []((ret.op = "list" /\ ls.phase = "raised" /\ anyFail /\ entered = [f \in Ids |-> 0])
            => /\ pc = "idle"
               /\ ret.kind = "error"
               /\ ret.err = "DriveError"
               /\ ret.items = <<>>
               /\ log = ListingCalls
               /\ ~log[Len(log)].ok)
    /\ [][(pc = "list" /\ ls.phase = "fetch" /\ Len(log') = Len(log) + 1
           /\ ~log'[Len(log')].ok)
          => (/\ pc' = "idle"
              /\ ret'.kind = "error"
              /\ ret'.err = "DriveError"
              /\ ret'.items = <<>>
              /\ ls'.phase = "raised")]_vars
    /\ [][((pc' = "list" /\ ls'.phase = "fetch") \/ (pc = "list" /\ ls.phase = "fetch"))
          => (cache' = cache /\ disk' = disk /\ entered' = [f \in Ids |-> 0]
              /\ stack' = <<>>)]_vars

C14_Witness ==
    /\ ListEnded
    /\ ret.err = "DriveError"
    /\ Len(log) = 2
    /\ log[1].ok
    /\ ~log[2].ok
    /\ \E k \in 1..Len(ls.all_items) :
          is_folder(ls.all_items[k]) /\ ls.all_items[k].owned_by_me
    /\ ls.options.show_size
    /\ cache = EmptyCache


-----------------------------------------------------------------------------
FailedCalls == SelectSeq(RemoteCalls, LAMBDA e : ~e.ok)

(* the entries of folder f on its pages from page token on *)
MissingChildren(f, token) ==
    LET listing == ListChildren(f, FALSE)
    IN {listing[k] : k \in (token * PageLen + 1)..Len(listing)}

(* descent paths to entry i that do not step from f to an entry of M *)
PathsKept(start, i, f, M) ==
    {p \in PathsToParents(start, i) :
        /\ ~\E k \in 1..(Len(p) - 1) : p[k] = f /\ p[k + 1] \in M
        /\ ~(p[Len(p)] = f /\ i \in M)}

SumKept(start, f, M) ==
    SumFn([i \in Ids |-> drive[i].size.v * Cardinality(PathsKept(start, i, f, M))],
          SizedIds)

SizeEnded == pc = "idle" /\ ret.op = "size" /\ entered[ret.id] = 1

(* C15: a failing page fetch never aborts calculate_folder_size: unless the *)
(* cache write fails the call returns a total; when one fetch failed, of    *)
(* page q of a folder F traversed once, the total is the full total less    *)
(* what lies behind the entries of F's pages from q on: F's earlier pages   *)
(* and every other folder count in full.                                    *)
C15_FailureTruncatesFolder ==
    SizeEnded =>
        /\ log[Len(log)].call = "set_folder_size"
        /\ log[Len(log)].ok <=> ret.kind = "value"
        /\ (ret.kind = "value" /\ Len(FailedCalls) = 1
            /\ entered[FailedCalls[1].id] = 1) =>
              ret.val = SumKept(ret.id, FailedCalls[1].id,
                                MissingChildren(FailedCalls[1].id, FailedCalls[1].token))
        /\ ret.kind = "value" =>
              ret.val = SumFn([i \in Ids |-> drive[i].size.v * counted[i]], SizedIds)

C15_Witness ==
    /\ SizeEnded
    /\ ret.kind = "value"
    /\ Len(FailedCalls) = 1
    /\ FailedCalls[1].id # ret.id
    /\ FailedCalls[1].token > 0
    /\ entered[FailedCalls[1].id] = 1
    /\ ret.val > 0
    /\ ret.val < SumPerPath(ret.id)
    /\ \E i \in SizedIds : FailedCalls[1].id \in drive[i].parents /\ counted[i] > 0


-----------------------------------------------------------------------------
(* the members the backing file holds under key k, read from the file itself *)
FileMembers(d, k) ==
    IF d.state = "ok" /\ k \in DOMAIN d.data THEN d.data[k] ELSE {}

CacheMembers(c, k) == {<<key, c[k][key]>> : key \in DOMAIN c[k]}

CacheWrites == {"set_path", "set_folder_size", "clear"}

(* the operation that just ended was a cache mutation and it returned *)
MutationReturned ==
    /\ pc = "idle"
    /\ ret.op \in {"resolve", "size", "clear"}
    /\ ret.kind = "value"
    /\ log # <<>>
    /\ log[Len(log)].call \in CacheWrites

(* members that are in memory and in the file *)
Persisted(c, d, k) == CacheMembers(c, k) \cap FileMembers(d, k)

(* C16: when set_path, set_folder_size or clear has returned, the backing   *)
(* file holds exactly the two maps of the cache in memory; and between      *)
(* operations no entry that was persisted and is still in memory is missing *)
(* from the file.                                                           *)
C16_WriteThrough ==
    /\ [](MutationReturned =>
            /\ disk.state = "ok"
            /\ DOMAIN disk.data = {"paths", "folder_sizes"}
            /\ \A k \in {"paths", "folder_sizes"} :
                  FileMembers(disk, k) = CacheMembers(cache, k))
    /\ [][(pc # "off" /\ pc' = "idle") =>
            \A k \in {"paths", "folder_sizes"} :
                (Persisted(cache, disk, k) \cap CacheMembers(cache', k))
                    \subseteq FileMembers(disk', k)]_vars

(* C17: after clear() has returned, get_path and get_folder_size find       *)
(* nothing under any key at any time, and the backing file holds two empty  *)
(* maps.                                                                    *)
C17_ClearEmptiesAll ==
    /\ []((pc = "idle" /\ ret.op = "clear") =>
            /\ \A path \in Paths : ~get_path(cache, path).some
            /\ \A id \in Ids, t \in Clock : ~get_folder_size(cache, id, t).some
            /\ ret.kind = "value" =>
                  /\ disk.state = "ok"
                  /\ DOMAIN disk.data = {"paths", "folder_sizes"}
                  /\ disk.data["paths"] = {}
                  /\ disk.data["folder_sizes"] = {})
    /\ [][(ret.op = "clear" /\ ret'.op \in {"get_path", "get_folder_size"})
            => ret'.kind = "none"]_vars

C17_Witness ==
    /\ pc = "idle"
    /\ ret.op = "clear"
    /\ ret.kind = "value"
    /\ budget = MaxOps - 2
    /\ now > 0
    /\ disk.state = "ok"
    /\ disk.data["paths"] = {}

(* C18: DriveCache() never fails, whatever the backing file is; from a file *)
(* that is unreadable, no text, no JSON or no JSON object the cache starts  *)
(* empty.                                                                   *)
C18_ConstructionNeverFails ==
    ret.op = "init" =>
        /\ ret.kind = "value"
        /\ pc = "idle"
        /\ disk.state \in {"unreadable", "undecodable", "corrupt", "notdict"}
              => cache = EmptyCache

(* C19: a cache write that fails ends the operation with DriveCacheError,   *)
(* for set_path, set_folder_size and clear alike, and DriveCacheError is    *)
(* raised by nothing else.                                                  *)
C19_PersistFailureRaises ==
    /\ [][(Len(log') >= 1 /\ log' # log /\ log'[Len(log')].call \in CacheWrites)
          => (~log'[Len(log')].ok <=>
                (pc' = "idle" /\ ret'.kind = "error" /\ ret'.err = "DriveCacheError"))]_vars
    /\ []((ret.kind = "error" /\ ret.err = "DriveCacheError") =>
            /\ log[Len(log)].call \in CacheWrites
            /\ ~log[Len(log)].ok)

C19_Witness ==
    /\ pc = "idle"
    /\ ret.op = "resolve"
    /\ ret.kind = "error"
    /\ ret.err = "DriveCacheError"
    /\ log[Len(log)].call = "set_path"
    /\ disk.state = "corrupt"
    /\ <<"a">> \in DOMAIN cache.paths

(* C20: what one process wrote the next one reads: a successful write puts  *)
(* every entry of memory into the file, a new DriveCache returns for every  *)
(* path in the file its identifier and name and for every folder its size   *)
(* while within the TTL of the timestamp in the file, and a resolve of a    *)
(* path in the file, first thing in the new process, issues no lookup.      *)
C20_NextProcessSeesEntries ==
    /\ [][(Len(log') >= 1 /\ log' # log /\ log'[Len(log')].call \in CacheWrites
           /\ log'[Len(log')].ok)
          => \A k \in {"paths", "folder_sizes"} :
                CacheMembers(cache', k) = FileMembers(disk', k)]_vars
    /\ [][(pc = "off" /\ ret'.op = "init" /\ ret'.kind = "value") =>
            /\ \A m \in FileMembers(disk, "paths") :
                  /\ get_path(cache', m[1]).some
                  /\ get_path(cache', m[1]).id = m[2].id
                  /\ get_path(cache', m[1]).name = m[2].name
            /\ \A id \in Ids, t \in Clock :
                  LET got == get_folder_size(cache', id, t) IN
                  /\ got.some =>
                        \E m \in FileMembers(disk, "folder_sizes") :
                            /\ m[1] = cache_key(id)
                            /\ m[2].size = got.v
                            /\ t - m[2].timestamp <= 3600
                  /\ \A m \in FileMembers(disk, "folder_sizes") :
                        (m[1] = cache_key(id) /\ t - m[2].timestamp <= 3600)
                            => got = Some(m[2].size)]_vars
    /\ [][(ret.op = "init" /\ ret.kind = "value" /\ ret'.op = "resolve") =>
            \A m \in FileMembers(disk, "paths") :
                m[1] = rs'.path =>
                    /\ pc' = "idle"
                    /\ ret'.kind = "value"
                    /\ ret'.id = m[2].id
                    /\ ret'.name = m[2].name
                    /\ SelectSeq(log', LAMBDA e : e.call = "list") = <<>>]_vars

C20_Witness ==
    /\ ret.op = "init"
    /\ ret.kind = "value"
    /\ <<"a">> \in DOMAIN cache.paths
    /\ cache.paths[<<"a">>].id = "A"
    /\ HasSizeEntry("A")
    /\ SizeEntry("A").size = 5
    /\ now - SizeEntry("A").timestamp > 3600


-----------------------------------------------------------------------------
(* the entries a listing of folder f is to show, stated on the remote store *)
ListedIds(f, options) ==
    {i \in Ids : /\ f \in drive[i].parents
                 /\ (options.show_hidden \/ ~drive[i].trashed)
                 /\ (options.owned_only => drive[i].ownedByMe)}

FetchedIds(f, options) ==
    {i \in Ids : f \in drive[i].parents /\ (options.show_hidden \/ ~drive[i].trashed)}

(* the requests of _fetch_items: the calls made before any size is asked for *)
FetchCalls ==
    SelectSeq(log, LAMBDA e : e.call = "list" /\ e.id = ls.id /\ e.name = <<>>)

PagesOf(n) == IF n = 0 THEN 1 ELSE (n + PageLen - 1) \div PageLen

FetchDone == ret.op = "list" /\ ls.phase \in {"sizes", "sort", "done"}

(* C21: without a fetch failure list_files returns exactly the entries of   *)
(* all pages, none lost and none twice: page k is asked for with the token  *)
(* the answer to page k-1 carried, as many pages as the folder has; and no  *)
(* item is filtered, no size asked for nor calculated while a page is still *)
(* to come.                                                                 *)
C21_AllPagesOnce ==
    /\ (pc = "list" /\ ls.phase = "fetch") =>
          /\ log = FetchCalls
          /\ \A k \in 1..Len(log) : log[k].token = k - 1 /\ log[k].ok
          /\ Len(ls.all_items) = Len(log) * PageLen
          /\ ls.items = <<>>
          /\ entered = [f \in Ids |-> 0]
          /\ stack = <<>>
    /\ FetchDone =>
          /\ {ls.all_items[k].id : k \in 1..Len(ls.all_items)}
                = FetchedIds(ls.id, ls.options)
          /\ Len(ls.all_items) = Cardinality(FetchedIds(ls.id, ls.options))
          /\ \A k \in 1..PagesOf(Len(ls.all_items)) :
                log[k].call = "list" /\ log[k].token = k - 1 /\ log[k].ok
          /\ Len(FetchCalls) = PagesOf(Len(ls.all_items))
    /\ (ListEnded /\ ret.kind = "value") =>
          /\ {ret.items[k].id : k \in 1..Len(ret.items)} = ListedIds(ls.id, ls.options)
          /\ Len(ret.items) = Cardinality(ListedIds(ls.id, ls.options))

C21_Witness ==
    /\ ListEnded
    /\ ret.kind = "value"
    /\ Len(FetchCalls) = 4
    /\ FetchCalls[4].token = 3
    /\ Len(ret.items) = 4
    /\ ls.options.show_size
    /\ \E f \in Folders : entered[f] > 0


-----------------------------------------------------------------------------
(* the entries under folder f, with the trashed ones when they are asked for *)
ChildrenOf(f, includeTrashed) ==
    {i \in Ids : f \in drive[i].parents /\ (includeTrashed \/ ~drive[i].trashed)}

PathsIn(start, includeTrashed) ==
    {p \in FolderSeqs :
        /\ p[1] = start
        /\ \A i, j \in 1..Len(p) : i # j => p[i] # p[j]
        /\ \A i \in 1..(Len(p) - 1) : p[i + 1] \in ChildrenOf(p[i], includeTrashed)}

(* the size total of folder start: every file once per descent path *)
TotalOf(start, includeTrashed) ==
    SumFn([i \in Ids |->
              drive[i].size.v
              * Cardinality({p \in PathsIn(start, includeTrashed) :
                                i \in ChildrenOf(p[Len(p)], includeTrashed)})],
          {i \in Ids : drive[i].size.some})

(* the size of folder id was calculated by the call that just ended *)
CalculatedNow(id) ==
    \E k \in 1..Len(log) : log[k].call = "set_folder_size" /\ log[k].id = id

(* C22: a listing and the folder sizes it calculates hold no trashed entry  *)
(* unless show_hidden asks for them; with show_hidden they hold them.       *)
C22_TrashedOnlyOnRequest ==
    (ListEnded /\ ret.kind = "value") =>
        /\ \A i \in Ids :
              (\E k \in 1..Len(ret.items) : ret.items[k].id = i)
                 <=> i \in ListedIds(ls.id, ls.options)
        /\ (ls.options.show_size /\ ~anyFail) =>
              \A k \in 1..Len(ret.items) :
                  CalculatedNow(ret.items[k].id) =>
                      ret.items[k].calculated_size
                          = Some(TotalOf(ret.items[k].id, ls.options.show_hidden))


-----------------------------------------------------------------------------
(* Sorting *)

(* list_files returned the sorted listing *)
Sorted == ListEnded /\ ret.kind = "value" /\ ls.phase = "done"

Pos(items, id) == CHOOSE k \in 1..Len(items) : items[k].id = id

SameItems(a, b) ==
    /\ Len(a) = Len(b)
    /\ \A k \in 1..Len(a) : \E j \in 1..Len(b) : b[j] = a[k]

(* the size shown for an entry: the calculated size of a folder when one  *)
(* was computed, else the size of the file in the store, else 0           *)
ShownSize(item) ==
    IF item.mime_type = FOLDER_MIME
    THEN (IF item.calculated_size.some THEN item.calculated_size.v ELSE 0)
    ELSE IF drive[item.id].size.some THEN drive[item.id].size.v ELSE 0

ShownSizes(items) == [k \in 1..Len(items) |-> ShownSize(items[k])]

(* C23: sorted by size, the entries come by display size from the largest *)
(* to the smallest, and from the smallest to the largest with             *)
(* reverse_sort: sizes 5, 100, 1 come out as 100, 5, 1, reversed 1, 5, 100 *)
C23_SizeOrder ==
    (Sorted /\ ls.options.sort_by = "size") =>
        /\ SameItems(ls.items, ret.items)
        /\ \A k \in 1..Len(ret.items) :
              display_size(ret.items[k]) = ShownSize(ret.items[k])
        /\ \A k \in 1..(Len(ret.items) - 1) :
              IF ls.options.reverse_sort
              THEN ShownSize(ret.items[k]) <= ShownSize(ret.items[k + 1])
              ELSE ShownSize(ret.items[k]) >= ShownSize(ret.items[k + 1])
        /\ ShownSizes(ls.items) = <<5, 100, 1>> =>
              ShownSizes(ret.items)
                  = IF ls.options.reverse_sort THEN <<1, 5, 100>> ELSE <<100, 5, 1>>

C23_Witness ==
    /\ Sorted
    /\ ls.options.sort_by = "size"
    /\ ~ls.options.reverse_sort
    /\ ShownSizes(ls.items) = <<5, 100, 1>>
    /\ ShownSizes(ret.items) = <<100, 5, 1>>

(* two fetched entries with equal sort keys *)
Ties ==
    {t \in (1..Len(ls.items)) \X (1..Len(ls.items)) :
        /\ t[1] < t[2]
        /\ SortKey(ls.items[t[1]], ls.options.sort_by)
              = SortKey(ls.items[t[2]], ls.options.sort_by)}

TieKept(t) == Pos(ret.items, ls.items[t[1]].id) < Pos(ret.items, ls.items[t[2]].id)

(* C24 as stated: entries with equal sort keys keep the order in which    *)
(* they were fetched, for every sort key, with or without reverse_sort    *)
C24_Original == Sorted => \A t \in Ties : TieKept(t)

(* C24: entries with equal sort keys keep the order in which they were    *)
(* fetched for every sort key when reverse_sort is not set; with          *)
(* reverse_sort they come out in the opposite of their fetched order      *)
C24_StableBeforeReversal ==
    Sorted => \A t \in Ties : TieKept(t) <=> ~ls.options.reverse_sort

C24_Witness ==
    /\ Sorted
    /\ ls.options.reverse_sort
    /\ ls.options.sort_by = "name"
    /\ \E t \in Ties : ~TieKept(t)

Timed(items) == {k \in 1..Len(items) : items[k].modified_time.some}

(* C25: sorted by date, a listing that mixes entries with and without a   *)
(* modification time is sorted: the entries come from the latest to the   *)
(* earliest with the ones without a time last, and the other way round    *)
(* with reverse_sort                                                      *)
C25_MissingDateIsEarliest ==
    (ListEnded /\ ls.options.sort_by = "date") =>
        /\ ret.err # "TypeError"
        /\ ret.kind = "value" =>
              LET r == IF ls.options.reverse_sort THEN Reverse(ret.items)
                       ELSE ret.items
              IN /\ SameItems(ls.items, r)
                 /\ \A j \in Timed(r), k \in (1..Len(r)) \ Timed(r) : j < k
                 /\ \A j, k \in Timed(r) :
                       j < k => r[j].modified_time.v >= r[k].modified_time.v


-----------------------------------------------------------------------------
(* Two processes on one backing file *)

FileKeys(d, k) == {m[1] : m \in FileMembers(d, k)}

(* the step is a clear() of the first process *)
ClearStep == ret'.op = "clear" /\ budget' < budget

(* C26: with two cache instances on one backing file no update is lost:   *)
(* an entry that either instance has persisted stays in the file through  *)
(* every later write of either instance, until a clear removes it         *)
C26_NoLostUpdate ==
    [][(disk'.state = "ok" /\ ~ClearStep) =>
          \A k \in {"paths", "folder_sizes"} : FileKeys(disk, k) \subseteq FileKeys(disk', k)]_vars


-----------------------------------------------------------------------------
(* C27: a total cut short by a failed page fetch is cached like a complete *)
(* one: the next calculate_folder_size of the same folder within the TTL   *)
(* returns the same partial total and issues no remote call                *)
C27_PartialTotalCached ==
    [][(/\ pc = "idle" /\ ret.op = "size" /\ ret.kind = "value" /\ anyFail
        /\ budget' < budget
        /\ ret'.op = "size" /\ ret'.id = ret.id
        /\ HasSizeEntry(ret.id)
        /\ now' - SizeEntry(ret.id).timestamp <= CACHE_TTL_SECONDS)
       => /\ pc' = "idle"
          /\ ret'.kind = "value"
          /\ ret'.val = ret.val
          /\ \A k \in 1..Len(log') : log'[k].call # "list"
          /\ cache' = cache
          /\ disk' = disk]_vars

C27_Witness ==
    /\ pc = "idle" /\ ret.op = "size" /\ ret.kind = "value"
    /\ budget = 0
    /\ ret.id = "B"
    /\ "B" \in drive["x"].parents
    /\ FoundFresh
    /\ found.size = 0
    /\ ret.val = 0
    /\ \A k \in 1..Len(log) : log[k].call # "list"


-----------------------------------------------------------------------------
(* C28: a remote error during the lookup of a segment ends resolve with   *)
(* DrivePathNotFoundError naming that segment and the whole path, as for  *)
(* a folder that does not exist; no further lookup is issued and nothing  *)
(* is cached                                                              *)
C28_RemoteErrorIsNotFound ==
    /\ [][(LookupStep /\ ~log'[Len(log')].ok) =>
            /\ pc' = "idle"
            /\ ret'.op = "resolve"
            /\ ret'.kind = "error"
            /\ ret'.err = "DrivePathNotFoundError"
            /\ ret'.seg = log'[Len(log')].name
            /\ ret'.seg = Segment(rs.path, Len(log') - 1)
            /\ ret'.path = rs.path
            /\ cache' = cache
            /\ disk' = disk]_vars
    /\ []((ResolveEnded /\ anyFail) =>
            /\ PathNotFound
            /\ ~RemoteCalls[Len(RemoteCalls)].ok
            /\ \A k \in 1..(Len(RemoteCalls) - 1) : RemoteCalls[k].ok
            /\ rs.path \notin DOMAIN cache.paths)

C28_Witness ==
    /\ ResolveEnded
    /\ anyFail
    /\ PathNotFound
    /\ Len(RemoteCalls) = 2
    /\ RemoteCalls[1].res # ""
    /\ ~NoMatch(RemoteCalls[2].id, RemoteCalls[2].name)
    /\ rs.path \notin DOMAIN cache.paths


-----------------------------------------------------------------------------
(* C29: a cold calculate_folder_size(id) writes exactly one size entry,    *)
(* under the key of id, when it returns, and changes no other entry; the   *)
(* traversal reads and writes no size entry of a folder below id: a folder *)
(* below id is listed from the remote store again even when the cache      *)
(* holds a fresh size for it                                               *)
C29_OneEntryWritten ==
    /\ [][(pc = "size" /\ ls.phase = "none") =>
            \/ pc' = "size" /\ cache' = cache /\ disk' = disk
            \/ /\ pc' = "idle"
               /\ cache'.paths = cache.paths
               /\ DOMAIN cache'.folder_sizes
                     = DOMAIN cache.folder_sizes \cup {cache_key(ret.id)}
               /\ \A key \in DOMAIN cache.folder_sizes \ {cache_key(ret.id)} :
                     cache'.folder_sizes[key] = cache.folder_sizes[key]
               /\ cache'.folder_sizes[cache_key(ret.id)].timestamp = now'
               /\ ret'.kind = "value" =>
                     cache'.folder_sizes[cache_key(ret.id)].size = ret'.val]_vars
    /\ []((pc = "idle" /\ ret.op = "size" /\ ret.kind = "value" /\ ~FoundFresh) =>
            /\ \A k \in 1..Len(log) :
                  log[k].call \in {"get_folder_size", "set_folder_size"}
                     => log[k].id = ret.id
            /\ ~anyFail =>
                  /\ ret.val = TotalOf(ret.id, FALSE)
                  /\ \A p \in PathsIn(ret.id, FALSE) :
                        Len(CallsFor(p[Len(p)])) >= 1)

C29_Witness ==
    /\ pc = "idle" /\ ret.op = "size" /\ ret.kind = "value"
    /\ ret.id = "A"
    /\ ~FoundFresh
    /\ ~anyFail
    /\ "A" \in drive["B"].parents
    /\ HasSizeEntry("B")
    /\ now - SizeEntry("B").timestamp <= CACHE_TTL_SECONDS
    /\ SizeEntry("B").size # TotalOf("B", FALSE)
    /\ Len(CallsFor("B")) >= 1
    /\ ret.val = TotalOf("A", FALSE)


-----------------------------------------------------------------------------
(* the step is a call of get_path or get_folder_size *)
ReadStep == budget' < budget /\ ret'.op \in {"get_path", "get_folder_size"}

(* C30: get_path and get_folder_size change neither the cache in memory   *)
(* nor the backing file; a size entry found expired stays stored: only    *)
(* set_folder_size and clear change or remove a size entry                *)
C30_ReadsChangeNothing ==
    /\ [][ReadStep => (cache' = cache /\ disk' = disk)]_vars
    /\ [][(pc # "off" /\ pc' # "off") =>
            \A key \in DOMAIN cache.folder_sizes :
                (key \notin DOMAIN cache'.folder_sizes
                 \/ cache'.folder_sizes[key] # cache.folder_sizes[key])
                => /\ Len(log') >= 1
                   /\ log'[Len(log')].call \in {"set_folder_size", "clear"}
                   /\ log' # log]_vars
    /\ []((pc = "idle" /\ ret.op = "get_folder_size" /\ FoundExpired) =>
            /\ ret.kind = "none"
            /\ HasSizeEntry(ret.id)
            /\ SizeEntry(ret.id) = [size |-> found.size, timestamp |-> found.timestamp])

C30_Witness ==
    /\ pc = "idle"
    /\ ret.op = "get_folder_size"
    /\ ret.kind = "none"
    /\ FoundExpired
    /\ HasSizeEntry(ret.id)
    /\ disk.state = "ok"
    /\ \E m \in FileMembers(disk, "folder_sizes") : m[1] = cache_key(ret.id)

====
